---- MODULE Spec2Model ----
(***************************************************************************)
(* Verification model of the IMAGO media search core:                      *)
(*   - text normalisation and tokenisation (preprocess.ts, tokenizer.ts),  *)
(*   - the InvertedIndex class (inverted-index.ts),                        *)
(*   - BM25 scoring (bm25.ts) and the search orchestration (searcher.ts)   *)
(*     with its module-scope IDF cache,                                    *)
(*   - the filter / sort / paginate layer of GET /api/search (route.ts).   *)
(*                                                                         *)
(* Strings are sequences of one-character strings.  JavaScript numbers     *)
(* that are not integers (IDF, BM25 scores, weights) are fixed-point       *)
(* integers scaled by SCALE; the average document length is kept as the    *)
(* exact fraction totalLength / totalDocs.                                 *)
(***************************************************************************)
EXTENDS Integers, Sequences, FiniteSets, TLC

VARIABLES
    fieldIndex,     \* [instance -> [field -> FieldIndex]]
    termsSorted,    \* [instance -> [field -> sorted term list]]
    documents,      \* [instance -> documents array (with holes)]
    photographers,  \* [instance -> set of fotografen strings]
    restrictions,   \* [instance -> set of restriction markers]
    idfCache,       \* module-scope cache: [field -> [term -> idf]]
    queryLogs,      \* module-scope analytics log: the entries logQuery holds
    lifecycle,      \* history: per instance "building" | "finalized" | "modified"
    ret,            \* history: the last public call, its arguments and what it returned
    hook            \* useSearch: the component's state and the requests its effects issued

vars == <<fieldIndex, termsSorted, documents, photographers, restrictions,
          idfCache, queryLogs, lifecycle, ret, hook>>

(***************************************************************************)
(* Characters and strings                                                  *)
(***************************************************************************)

\* UTF-16 code unit of every character the model uses.
CharCode ==
    (" " :> 32) @@ ("," :> 44) @@ ("-" :> 45) @@ ("." :> 46) @@ ("/" :> 47) @@
    ("0" :> 48) @@ ("1" :> 49) @@ ("2" :> 50) @@ ("3" :> 51) @@ ("4" :> 52) @@
    ("5" :> 53) @@ ("6" :> 54) @@ ("7" :> 55) @@ ("8" :> 56) @@ ("9" :> 57) @@
    ("A" :> 65) @@ ("B" :> 66) @@ ("D" :> 68) @@ ("E" :> 69) @@ ("G" :> 71) @@
    ("I" :> 73) @@ ("M" :> 77) @@ ("O" :> 79) @@ ("R" :> 82) @@
    ("a" :> 97) @@ ("b" :> 98) @@ ("d" :> 100) @@ ("e" :> 101) @@ ("g" :> 103) @@
    ("i" :> 105) @@ ("l" :> 108) @@ ("m" :> 109) @@ ("n" :> 110) @@ ("o" :> 111) @@
    ("r" :> 114) @@ ("s" :> 115) @@ ("u" :> 117) @@ ("x" :> 120) @@ ("z" :> 122) @@
    ("Ä" :> 196) @@ ("Ü" :> 220) @@ ("ß" :> 223) @@ ("ä" :> 228) @@ ("ö" :> 246) @@
    ("ü" :> 252)

Chars == DOMAIN CharCode

UpperAZ == {c \in Chars : CharCode[c] >= 65 /\ CharCode[c] <= 90}

\* String.prototype.toLowerCase on one character.
LowerChar(c) ==
    IF (CharCode[c] >= 65 /\ CharCode[c] <= 90) \/ c \in {"Ä", "Ü"}
    THEN CHOOSE d \in Chars : CharCode[d] = CharCode[c] + 32
    ELSE c

\* The order of < on JavaScript strings and of Array.prototype.sort() without a
\* comparator: lexicographic on UTF-16 code units, a proper prefix first.
RECURSIVE StrLess(_, _)
StrLess(s, t) ==
    IF t = <<>> THEN FALSE
    ELSE IF s = <<>> THEN TRUE
    ELSE IF Head(s) = Head(t) THEN StrLess(Tail(s), Tail(t))
    ELSE CharCode[Head(s)] < CharCode[Head(t)]

\* String.prototype.startsWith
StartsWith(s, prefix) ==
    /\ Len(prefix) <= Len(s)
    /\ SubSeq(s, 1, Len(prefix)) = prefix

Range(s) == {s[k] : k \in DOMAIN s}

RECURSIVE Concat(_)
Concat(ss) == IF ss = <<>> THEN <<>> ELSE Head(ss) \o Concat(Tail(ss))

(***************************************************************************)
(* preprocess.ts: normalizeGerman                                          *)
(***************************************************************************)

\* One character through toLowerCase and the four replace() calls.
NormalizeChar(c) ==
    LET l == LowerChar(c) IN
    CASE l = "ä" -> <<"a", "e">>
      [] l = "ö" -> <<"o", "e">>
      [] l = "ü" -> <<"u", "e">>
      [] l = "ß" -> <<"s", "s">>
      [] OTHER -> <<l>>

\* normalizeGerman with the umlaut replacements made before toLowerCase: an
\* upper-case umlaut is lowered but not replaced.
normalizeGerman_ReplaceFirst(text) ==
    Concat([k \in DOMAIN text |->
               IF text[k] \in {"ä", "ö", "ü", "ß"} THEN NormalizeChar(text[k])
               ELSE <<LowerChar(text[k])>>])

normalizeGerman(text) == Concat([k \in DOMAIN text |-> NormalizeChar(text[k])])

(***************************************************************************)
(* stopwords.ts: the members of GERMAN_STOPWORDS the model's texts can     *)
(* produce                                                                 *)
(***************************************************************************)

GERMAN_STOPWORDS ==
    { <<"d", "e", "r">>, <<"d", "i", "e">>, <<"i", "n">>, <<"i", "m">>,
      <<"u", "n", "d">>, <<"i", "m", "a", "g", "o">> }

(***************************************************************************)
(* tokenizer.ts: tokenize                                                  *)
(***************************************************************************)

\* The character class of the split() regex: [\s,.;:!?"'()[\]{}]
Separators == {" ", ",", "."}

\* text.split(sep+).filter(Boolean): the maximal runs of non-separator characters.
RECURSIVE SplitOn(_, _, _)
SplitOn(text, seps, cur) ==
    IF text = <<>> THEN (IF cur = <<>> THEN <<>> ELSE <<cur>>)
    ELSE IF Head(text) \in seps
         THEN (IF cur = <<>> THEN <<>> ELSE <<cur>>) \o SplitOn(Tail(text), seps, <<>>)
         ELSE SplitOn(Tail(text), seps, Append(cur, Head(text)))

\* word.split('-'): every piece between hyphens, empty pieces included.
RECURSIVE SplitHyphen(_, _)
SplitHyphen(word, cur) ==
    IF word = <<>> THEN <<cur>>
    ELSE IF Head(word) = "-"
         THEN <<cur>> \o SplitHyphen(Tail(word), <<>>)
         ELSE SplitHyphen(Tail(word), Append(cur, Head(word)))

AtLeast2(p) == Len(p) >= 2
NotHyphen(c) == c # "-"

\* The tokens one word contributes (the body of the for loop).
WordTokens(word) ==
    IF "-" \in Range(word)
    THEN LET parts == SelectSeq(SplitHyphen(word, <<>>), AtLeast2) IN
         IF Len(parts) >= 2
         THEN (IF Len(word) >= 2 THEN <<word>> ELSE <<>>) \o parts
         ELSE (IF Len(word) >= 2 THEN <<SelectSeq(word, NotHyphen)>> ELSE <<>>)
    ELSE (IF Len(word) >= 2 THEN <<word>> ELSE <<>>)

NotStopword(token) == token \notin GERMAN_STOPWORDS

tokenize(text) ==
    IF text = <<>> THEN <<>>
    ELSE LET normalized == normalizeGerman(text)
             words == SplitOn(normalized, Separators, <<>>)
             tokens == Concat([k \in DOMAIN words |-> WordTokens(words[k])])
         IN SelectSeq(tokens, NotStopword)

(***************************************************************************)
(* inverted-index.ts: extractCleanSuchtext                                 *)
(***************************************************************************)

\* Length of the maximal run of [A-Z] at the head of s.
RECURSIVE UpperRun(_)
UpperRun(s) ==
    IF s # <<>> /\ Head(s) \in UpperAZ THEN 1 + UpperRun(Tail(s)) ELSE 0

Drop(s, n) == SubSeq(s, n + 1, Len(s))

\* Length matched by the greedy (?:x[A-Z]+)* at the head of s.
RECURSIVE XGroups(_)
XGroups(s) ==
    IF s # <<>> /\ Head(s) = "x" /\ UpperRun(Tail(s)) >= 1
    THEN LET g == 1 + UpperRun(Tail(s)) IN g + XGroups(Drop(s, g))
    ELSE 0

\* Length of the match of /[A-Z]+(?:x[A-Z]+)+/ anchored at the head of s, 0 when
\* there is none.  [A-Z]+ is greedy and cannot give a character back to x, so the
\* match is the maximal upper-case run followed by every x-group that follows.
MarkerAt(s) ==
    LET u == UpperRun(s) IN
    IF u >= 1 /\ XGroups(Drop(s, u)) >= 1 THEN u + XGroups(Drop(s, u)) ELSE 0

\* text.replace(/[A-Z]+(?:x[A-Z]+)+/g, ' ')
RECURSIVE ReplaceMarkers(_)
ReplaceMarkers(s) ==
    IF s = <<>> THEN <<>>
    ELSE IF MarkerAt(s) > 0 THEN <<" ">> \o ReplaceMarkers(Drop(s, MarkerAt(s)))
    ELSE <<Head(s)>> \o ReplaceMarkers(Tail(s))

\* text.replace(/\s+/g, ' ').trim()
CollapseTrim(s) ==
    LET words == SplitOn(s, {" "}, <<>>) IN
    Concat([k \in DOMAIN words |-> IF k = 1 THEN words[k] ELSE <<" ">> \o words[k]])

extractCleanSuchtext(suchtext) ==
    IF suchtext = <<>> THEN <<>> ELSE CollapseTrim(ReplaceMarkers(suchtext))

(***************************************************************************)
(* Numbers                                                                 *)
(***************************************************************************)

\* Fixed-point unit: the number x is the integer x * SCALE, rounded down.
SCALE == 10 * 10 * 10

FxMul(a, b) == (a * b) \div SCALE
FxDiv(a, b) == (a * SCALE) \div b

RECURSIVE Gcd(_, _)
Gcd(a, b) == IF b = 0 THEN a ELSE Gcd(b, a % b)

\* The quotient n / d of two integers (d > 0), kept exact, in lowest terms.
Frac(n, d) == LET g == Gcd(n, d) IN [num |-> n \div g, den |-> d \div g]

RECURSIVE SumOver(_, _)
SumOver(f, S) ==
    IF S = {} THEN 0
    ELSE LET x == CHOOSE y \in S : TRUE IN f[x] + SumOver(f, S \ {x})

Min(a, b) == IF a <= b THEN a ELSE b

(***************************************************************************)
(* types.ts (data): the ProcessedMediaItem records offered to the index    *)
(***************************************************************************)

Fields == {"suchtext", "fotografen", "bildnummer"}

NoRestriction == <<"n", "o", "n", "e">>
MarkerABxD == <<"A", "B", "x", "D">>

Date0101 == <<"2", "0", "2", "4", "-", "0", "1", "-", "0", "1">>
Date0314 == <<"2", "0", "2", "4", "-", "0", "3", "-", "1", "4">>

\* "Berlin, Berlin Berg" by "IMAGO / Müller"
ItemBerlin ==
    [ bildnummer |-> <<"a", "1">>,
      suchtext   |-> <<"B", "e", "r", "l", "i", "n", ",", " ",
                       "B", "e", "r", "l", "i", "n", " ", "B", "e", "r", "g">>,
      fotografen |-> <<"I", "M", "A", "G", "O", " ", "/", " ",
                       "M", "ü", "l", "l", "e", "r">>,
      dateISO    |-> Date0101,
      restrictions |-> <<>> ]

\* "Der Ber im Bad-Ems ABxD" by "IMAGO", restricted
ItemBer ==
    [ bildnummer |-> <<"b", "2">>,
      suchtext   |-> <<"D", "e", "r", " ", "B", "e", "r", " ", "i", "m", " ",
                       "B", "a", "d", "-", "E", "m", "s", " ", "A", "B", "x", "D">>,
      fotografen |-> <<"I", "M", "A", "G", "O">>,
      dateISO    |-> Date0314,
      restrictions |-> <<MarkerABxD>> ]

\* "Berg" by "Berlin", no date, no bildnummer
ItemBerg ==
    [ bildnummer |-> <<>>,
      suchtext   |-> <<"B", "e", "r", "g">>,
      fotografen |-> <<"B", "e", "r", "l", "i", "n">>,
      dateISO    |-> <<>>,
      restrictions |-> <<>> ]

Items == {ItemBerlin, ItemBer, ItemBerg}

\* The text tokenized for each field when the suchtext is normalized before the
\* markers are removed: lower-cased, a marker is no longer recognised.
FieldText_NormalizeFirst(item, field) ==
    CASE field = "suchtext"   -> extractCleanSuchtext(normalizeGerman(item.suchtext))
      [] field = "fotografen" -> item.fotografen
      [] field = "bildnummer" -> item.bildnummer

\* The text addDocument tokenizes for each field.
FieldText(item, field) ==
    CASE field = "suchtext"   -> extractCleanSuchtext(item.suchtext)
      [] field = "fotografen" -> item.fotografen
      [] field = "bildnummer" -> item.bildnummer

FieldTokens(item, field) == tokenize(FieldText(item, field))

(***************************************************************************)
(* inverted-index.ts: class InvertedIndex                                  *)
(***************************************************************************)

\* The map with no entries (new Map()).
EmptyMap == [k \in {} |-> 0]

createEmptyFieldIndex ==
    [ termPostings |-> EmptyMap,
      docLengths   |-> EmptyMap,
      totalDocs    |-> 0,
      avgDocLength |-> Frac(0, 1) ]

\* A term frequency that records presence only.
TermFreq_Presence(tokens, term) == 1

\* Number of occurrences of term in tokens (the termFreqs map of indexTokens).
TermFreq(tokens, term) == Cardinality({k \in DOMAIN tokens : tokens[k] = term})

\* indexTokens pushing a posting for every token occurrence instead of one for
\* every distinct term.
indexTokens_PerOccurrence(index, docId, tokens) ==
    LET terms == Range(tokens)
        posting(t) == [docId |-> docId, termFrequency |-> TermFreq(tokens, t)]
        old == index.termPostings
        pushed(t) == [k \in 1..TermFreq(tokens, t) |-> posting(t)]
    IN [ index EXCEPT
           !.termPostings =
               [t \in DOMAIN old \cup terms |->
                   IF t \notin terms THEN old[t]
                   ELSE IF t \in DOMAIN old THEN old[t] \o pushed(t)
                   ELSE pushed(t)],
           !.docLengths = (docId :> Len(tokens)) @@ index.docLengths,
           !.totalDocs = index.totalDocs + 1 ]

\* indexTokens returning early for a field without tokens, before it records the
\* document's length and counts the document.
indexTokens_SkipEmpty(index, docId, tokens) ==
    IF tokens = <<>> THEN index
    ELSE LET terms == Range(tokens)
             posting(t) == [docId |-> docId, termFrequency |-> TermFreq(tokens, t)]
             old == index.termPostings
         IN [ index EXCEPT
                !.termPostings =
                    [t \in DOMAIN old \cup terms |->
                        IF t \notin terms THEN old[t]
                        ELSE IF t \in DOMAIN old THEN Append(old[t], posting(t))
                        ELSE <<posting(t)>>],
                !.docLengths = (docId :> Len(tokens)) @@ index.docLengths,
                !.totalDocs = index.totalDocs + 1 ]

\* indexTokens(index, docId, tokens): the field index afterwards.
indexTokens(index, docId, tokens) ==
    LET terms == Range(tokens)
        posting(t) == [docId |-> docId, termFrequency |-> TermFreq(tokens, t)]
        old == index.termPostings
    IN [ index EXCEPT
           !.termPostings =
               [t \in DOMAIN old \cup terms |->
                   IF t \notin terms THEN old[t]
                   ELSE IF t \in DOMAIN old THEN Append(old[t], posting(t))
                   ELSE <<posting(t)>>],
           !.docLengths = (docId :> Len(tokens)) @@ index.docLengths,
           !.totalDocs = index.totalDocs + 1 ]

\* calculateAvgDocLength averaging over the documents of non-zero length only.
calculateAvgDocLength_NonEmptyOnly(index) ==
    LET nonEmpty == {d \in DOMAIN index.docLengths : index.docLengths[d] > 0} IN
    IF nonEmpty = {} THEN Frac(0, 1)
    ELSE Frac(SumOver(index.docLengths, DOMAIN index.docLengths), Cardinality(nonEmpty))

calculateAvgDocLength(index) ==
    IF index.totalDocs = 0 THEN Frac(0, 1)
    ELSE Frac(SumOver(index.docLengths, DOMAIN index.docLengths), index.totalDocs)

\* Array.from(keys).sort(): the keys in ascending code-unit order.
RECURSIVE SortStrings(_)
SortStrings(S) ==
    IF S = {} THEN <<>>
    ELSE LET least == CHOOSE s \in S : \A t \in S \ {s} : StrLess(s, t)
         IN <<least>> \o SortStrings(S \ {least})

\* The binary search of getPrefixTerms on the 0-based array terms: the final lo.
RECURSIVE LowerBound(_, _, _, _)
LowerBound(terms, prefix, lo, hi) ==
    IF lo < hi
    THEN LET mid == (lo + hi) \div 2 IN
         IF StrLess(terms[mid + 1], prefix)
         THEN LowerBound(terms, prefix, mid + 1, hi)
         ELSE LowerBound(terms, prefix, lo, mid)
    ELSE lo

\* The collecting loop testing matches.length <= limit: one term too many.
RECURSIVE CollectPrefix_OneMore(_, _, _, _, _)
CollectPrefix_OneMore(terms, prefix, limit, i, matches) ==
    IF i < Len(terms) /\ Len(matches) <= limit
    THEN IF StartsWith(terms[i + 1], prefix)
         THEN CollectPrefix_OneMore(terms, prefix, limit, i + 1,
                                    Append(matches, terms[i + 1]))
         ELSE matches
    ELSE matches

\* The collecting loop of getPrefixTerms from 0-based position i.
RECURSIVE CollectPrefix(_, _, _, _, _)
CollectPrefix(terms, prefix, limit, i, matches) ==
    IF i < Len(terms) /\ Len(matches) < limit
    THEN IF StartsWith(terms[i + 1], prefix)
         THEN CollectPrefix(terms, prefix, limit, i + 1, Append(matches, terms[i + 1]))
         ELSE matches
    ELSE matches

\* getPrefixTerms without the matches.length < limit test: every term with the
\* prefix is returned.
getPrefixTerms_Unlimited(terms, prefix, limit) ==
    IF Len(terms) = 0 \/ prefix = <<>> THEN <<>>
    ELSE CollectPrefix(terms, prefix, Len(terms),
                       LowerBound(terms, prefix, 0, Len(terms)), <<>>)

\* getPrefixTerms on the sorted term list of the field.
getPrefixTerms(terms, prefix, limit) ==
    IF Len(terms) = 0 \/ prefix = <<>> THEN <<>>
    ELSE CollectPrefix(terms, prefix, limit,
                       LowerBound(terms, prefix, 0, Len(terms)), <<>>)

\* getPostings(term, field) on one field index.
getPostings(index, term) ==
    LET normalizedTerm == normalizeGerman(term) IN
    IF normalizedTerm \in DOMAIN index.termPostings
    THEN index.termPostings[normalizedTerm] ELSE <<>>

\* A JavaScript array is a map from some of the indices 0 .. length-1 to values;
\* the other indices are holes.
ArrayLength(arr) ==
    IF DOMAIN arr = {} THEN 0
    ELSE 1 + (CHOOSE m \in DOMAIN arr : \A d \in DOMAIN arr : d <= m)

(***************************************************************************)
(* bm25.ts: computeIDF, computeTermScore                                   *)
(***************************************************************************)

\* Math.log on fixed-point x >= SCALE: ln x = 2 * (z + z^3/3 + z^5/5 + ...),
\* z = (x - 1) / (x + 1), summed until the terms vanish.
RECURSIVE LnSeries(_, _, _)
LnSeries(z, power, k) ==
    IF power = 0 THEN 0
    ELSE power \div k + LnSeries(z, FxMul(FxMul(power, z), z), k + 2)

Ln(x) == LET z == FxDiv(x - SCALE, x + SCALE) IN 2 * LnSeries(z, z, 1)

\* computeIDF without the guard for an empty corpus or an unseen term.
computeIDF_NoGuard(docFreq, totalDocs) ==
    Ln(SCALE + ((2 * (totalDocs - docFreq) + 1) * SCALE) \div (2 * docFreq + 1))

computeIDF(docFreq, totalDocs) ==
    IF totalDocs = 0 \/ docFreq = 0 THEN 0
    ELSE Ln(SCALE + ((2 * (totalDocs - docFreq) + 1) * SCALE) \div (2 * docFreq + 1))

\* avgDocLength is the fraction num/den; tf and docLength are integers; idf, k1
\* and b are fixed-point.
computeTermScore(tf, docLength, avgDocLength, idf, k1, b) ==
    IF avgDocLength.num = 0 \/ tf = 0 THEN 0
    ELSE LET ratio == (docLength * avgDocLength.den * SCALE) \div avgDocLength.num
             lengthNorm == SCALE - b + FxMul(b, ratio)
             tfSaturated == FxDiv(tf * (k1 + SCALE), tf * SCALE + FxMul(k1, lengthNorm))
         IN FxMul(idf, tfSaturated)

(***************************************************************************)
(* types.ts (search): DEFAULT_SEARCH_CONFIG                                *)
(***************************************************************************)

DEFAULT_SEARCH_CONFIG ==
    [ k1 |-> (12 * SCALE) \div 10,
      b |-> (75 * SCALE) \div 100,
      suchtextWeight |-> 3 * SCALE,
      fotografenWeight |-> (15 * SCALE) \div 10,
      bildnummerWeight |-> 1 * SCALE,
      minPrefixLength |-> 3,
      maxPrefixExpansion |-> 50,
      prefixPenalty |-> (8 * SCALE) \div 10 ]

\* { ...DEFAULT_SEARCH_CONFIG, ...config }
MergeConfig(config) ==
    [k \in DOMAIN DEFAULT_SEARCH_CONFIG |->
        IF k \in DOMAIN config THEN config[k] ELSE DEFAULT_SEARCH_CONFIG[k]]

(***************************************************************************)
(* searcher.ts: idfCache, getIDF, scoreTermInField, search                 *)
(***************************************************************************)

\* const idfCache = new Map(): no field has a cached term.
EmptyIdfCache == [f \in Fields |-> EmptyMap]

\* getIDF without the cache lookup: the value is computed and stored every time.
getIDF_Overwrite(term, field, index, cache) ==
    LET docFreq == IF term \in DOMAIN index.termPostings
                   THEN Len(index.termPostings[term]) ELSE 0
        idf == computeIDF(docFreq, index.totalDocs)
    IN [ idf |-> idf,
         cache |-> [cache EXCEPT ![field] = (term :> idf) @@ @],
         computed |-> TRUE, docFreq |-> docFreq, totalDocs |-> index.totalDocs ]

\* getIDF(term, field, fieldIndex) against the cache: the value returned, the cache
\* afterwards, and what was passed to computeIDF when it was called.
getIDF(term, field, index, cache) ==
    IF term \in DOMAIN cache[field]
    THEN [ idf |-> cache[field][term], cache |-> cache, computed |-> FALSE,
           docFreq |-> 0, totalDocs |-> 0 ]
    ELSE LET docFreq == IF term \in DOMAIN index.termPostings
                        THEN Len(index.termPostings[term]) ELSE 0
             idf == computeIDF(docFreq, index.totalDocs)
         IN [ idf |-> idf,
              cache |-> [cache EXCEPT ![field] = (term :> idf) @@ @],
              computed |-> TRUE, docFreq |-> docFreq, totalDocs |-> index.totalDocs ]

FieldWeight(field, config) ==
    CASE field = "suchtext"   -> config.suchtextWeight
      [] field = "fotografen" -> config.fotografenWeight
      [] field = "bildnummer" -> config.bildnummerWeight

\* Position of docId's entry in the docScores map, 0 when it has none.
ScorePos(docScores, docId) ==
    IF \E k \in DOMAIN docScores : docScores[k].docId = docId
    THEN CHOOSE k \in DOMAIN docScores : docScores[k].docId = docId
    ELSE 0

\* The loop over the postings with existing.score = finalScore in place of +=:
\* a later amount replaces what the document had accumulated.
RECURSIVE ScorePostings_Assign(_, _, _, _, _, _)
ScorePostings_Assign(postings, term, index, idf, factors, docScores) ==
    IF postings = <<>> THEN docScores
    ELSE LET posting == Head(postings)
             docId == posting.docId
             docLength == IF docId \in DOMAIN index.docLengths
                          THEN index.docLengths[docId] ELSE 0
             rawScore == computeTermScore(posting.termFrequency, docLength,
                                          index.avgDocLength, idf, factors.k1, factors.b)
             finalScore == FxMul(FxMul(rawScore, factors.fieldWeight),
                                 factors.prefixMultiplier)
             pos == ScorePos(docScores, docId)
             next ==
                 IF pos # 0
                 THEN [docScores EXCEPT
                         ![pos].score = finalScore,
                         ![pos].terms = IF term \in Range(@) THEN @ ELSE Append(@, term)]
                 ELSE Append(docScores,
                             [docId |-> docId, score |-> finalScore, terms |-> <<term>>])
         IN ScorePostings_Assign(Tail(postings), term, index, idf, factors, next)

\* The loop over the postings of scoreTermInField.
RECURSIVE ScorePostings(_, _, _, _, _, _)
ScorePostings(postings, term, index, idf, factors, docScores) ==
    IF postings = <<>> THEN docScores
    ELSE LET posting == Head(postings)
             docId == posting.docId
             docLength == IF docId \in DOMAIN index.docLengths
                          THEN index.docLengths[docId] ELSE 0
             rawScore == computeTermScore(posting.termFrequency, docLength,
                                          index.avgDocLength, idf, factors.k1, factors.b)
             finalScore == FxMul(FxMul(rawScore, factors.fieldWeight),
                                 factors.prefixMultiplier)
             pos == ScorePos(docScores, docId)
             next ==
                 IF pos # 0
                 THEN [docScores EXCEPT
                         ![pos].score = @ + finalScore,
                         ![pos].terms = IF term \in Range(@) THEN @ ELSE Append(@, term)]
                 ELSE Append(docScores,
                             [docId |-> docId, score |-> finalScore, terms |-> <<term>>])
         IN ScorePostings(Tail(postings), term, index, idf, factors, next)

\* scoreTermInField(term, field, index, docScores, config, isPrefix).  acc carries
\* docScores, the IDF cache and the record of the IDF values used.
scoreTermInField(term, field, fieldIndexes, acc, config, isPrefix) ==
    LET index == fieldIndexes[field] IN
    IF term \notin DOMAIN index.termPostings \/ index.termPostings[term] = <<>>
    THEN acc
    ELSE LET got == getIDF(term, field, index, acc.cache)
             factors == [ k1 |-> config.k1, b |-> config.b,
                          fieldWeight |-> FieldWeight(field, config),
                          prefixMultiplier |->
                              IF isPrefix THEN config.prefixPenalty ELSE SCALE ]
         IN [ docScores |-> ScorePostings(index.termPostings[term], term, index,
                                          got.idf, factors, acc.docScores),
              cache |-> got.cache,
              uses |-> Append(acc.uses,
                              [ term |-> term, field |-> field, idf |-> got.idf,
                                computed |-> got.computed, docFreq |-> got.docFreq,
                                totalDocs |-> got.totalDocs, isPrefix |-> isPrefix ]) ]

\* The scoreTermInField calls one query term makes, in the order search makes them.
FieldOrder == <<"suchtext", "fotografen", "bildnummer">>

\* The calls of a query term without the prefixTerm === term test: a token that
\* is in the vocabulary is scored again as its own expansion.
TermCalls_NoSkip(term, index, config) ==
    LET exact == [k \in 1..3 |-> [term |-> term, field |-> FieldOrder[k], isPrefix |-> FALSE]]
        expanded(field) ==
            LET prefixTerms == getPrefixTerms(index.termsSorted[field], term,
                                              config.maxPrefixExpansion)
            IN [k \in DOMAIN prefixTerms |->
                   [term |-> prefixTerms[k], field |-> field, isPrefix |-> TRUE]]
    IN IF Len(term) >= config.minPrefixLength
       THEN exact \o expanded("suchtext") \o expanded("fotografen")
                  \o expanded("bildnummer")
       ELSE exact

\* The calls of a query term with the minPrefixLength test left out: every term
\* is expanded.
TermCalls_AlwaysExpand(term, index, config) ==
    LET exact == [k \in 1..3 |-> [term |-> term, field |-> FieldOrder[k], isPrefix |-> FALSE]]
        expanded(field) ==
            LET prefixTerms == getPrefixTerms(index.termsSorted[field], term,
                                              config.maxPrefixExpansion)
                others == SelectSeq(prefixTerms, LAMBDA t : t # term)
            IN [k \in DOMAIN others |->
                   [term |-> others[k], field |-> field, isPrefix |-> TRUE]]
    IN exact \o expanded("suchtext") \o expanded("fotografen") \o expanded("bildnummer")

TermCalls(term, index, config) ==
    LET exact == [k \in 1..3 |-> [term |-> term, field |-> FieldOrder[k], isPrefix |-> FALSE]]
        expanded(field) ==
            LET prefixTerms == getPrefixTerms(index.termsSorted[field], term,
                                              config.maxPrefixExpansion)
                others == SelectSeq(prefixTerms, LAMBDA t : t # term)
            IN [k \in DOMAIN others |->
                   [term |-> others[k], field |-> field, isPrefix |-> TRUE]]
    IN IF Len(term) >= config.minPrefixLength
       THEN exact \o expanded("suchtext") \o expanded("fotografen")
                  \o expanded("bildnummer")
       ELSE exact

RECURSIVE ScoreCalls(_, _, _, _)
ScoreCalls(calls, index, acc, config) ==
    IF calls = <<>> THEN acc
    ELSE ScoreCalls(Tail(calls), index,
                    scoreTermInField(Head(calls).term, Head(calls).field,
                                     index.fieldIndex, acc, config, Head(calls).isPrefix),
                    config)

\* The comparator with the tie-breaker reversed: among equal scores the older
\* document sorts first.
SortsBefore_OldestFirst(a, b) ==
    \/ a.score > b.score
    \/ a.score = b.score /\ StrLess(a.item.dateISO, b.item.dateISO)

\* The comparator of results.sort: TRUE when it returns a negative number for
\* (a, b), that is when a sorts before b.
\* localeCompare orders ISO dates, and the empty string before them, as code
\* units do.
SortsBefore(a, b) ==
    \/ a.score > b.score
    \/ a.score = b.score /\ StrLess(b.item.dateISO, a.item.dateISO)

\* Array.prototype.sort is stable: an element ends behind every element that
\* sorts before it and behind every earlier element it does not sort before.
StableSort(xs, before(_, _)) ==
    LET rank(k) ==
            1 + Cardinality({j \in DOMAIN xs :
                    /\ j # k
                    /\ \/ before(xs[j], xs[k])
                       \/ ~before(xs[k], xs[j]) /\ j < k})
    IN [p \in DOMAIN xs |-> xs[CHOOSE k \in DOMAIN xs : rank(k) = p]]

\* A hole of a JavaScript array (an index below length that holds nothing).
Hole == [hole |-> TRUE]

\* Browse mode returning the documents newest first instead of in id order.
BrowseAll_NewestFirst(index) ==
    StableSort([k \in 1..ArrayLength(index.documents) |->
                   [ docId |-> k - 1, item |-> index.documents[k - 1],
                     score |-> 0, matchedTerms |-> <<>> ]],
               SortsBefore)

\* Browse mode of search: getAllDocuments().map((item, docId) => ...), every
\* stored document with score 0 and no matched terms.
BrowseAll(index) ==
    [k \in 1..ArrayLength(index.documents) |->
        IF (k - 1) \in DOMAIN index.documents
        THEN [ docId |-> k - 1, item |-> index.documents[k - 1],
               score |-> 0, matchedTerms |-> <<>> ]
        ELSE Hole]

\* The conversion of docScores to the SearchResult array: entries whose document
\* getDocument finds, in the insertion order of the map.
ResultsOf(index, docScores) ==
    LET found == SelectSeq(docScores, LAMBDA e : e.docId \in DOMAIN index.documents)
    IN [k \in DOMAIN found |->
           [ docId |-> found[k].docId, item |-> index.documents[found[k].docId],
             score |-> found[k].score, matchedTerms |-> found[k].terms ]]

\* What search returns once every term is scored: the sorted results.
SortedResults(index, acc) ==
    [ results |-> StableSort(ResultsOf(index, acc.docScores), SortsBefore),
      cache |-> acc.cache, uses |-> acc.uses ]

\* The scoring of the query terms, from empty docScores.
ScoreTerms(queryTerms, index, cfg, cache) ==
    ScoreCalls(Concat([k \in DOMAIN queryTerms |-> TermCalls(queryTerms[k], index, cfg)]),
               index, [docScores |-> <<>>, cache |-> cache, uses |-> <<>>], cfg)

\* search(query, index, config) against the cache: the results returned, the cache
\* afterwards and the IDF values used.  index is one InvertedIndex instance.
search(query, index, config, cache) ==
    IF Len(tokenize(query)) = 0
    THEN [results |-> BrowseAll(index), cache |-> cache, uses |-> <<>>]
    ELSE SortedResults(index,
                       ScoreTerms(tokenize(query), index, MergeConfig(config), cache))

(***************************************************************************)
(* The calls the model makes                                               *)
(***************************************************************************)

\* Document ids offered to addDocument are 0 .. MaxDocs-1.
MaxDocs == 3

Instances == {1, 2}

QueryEmpty == <<>>
QueryDer == <<"d", "e", "r">>
QueryBe == <<"b", "e">>
QueryBer == <<"b", "e", "r">>
QueryBerlin == <<"B", "e", "r", "l", "i", "n">>
QueryBergBer == <<"b", "e", "r", "g", " ", "B", "e", "r">>

\* The same token twice.
QueryBergBerg == <<"b", "e", "r", "g", " ", "b", "e", "r", "g">>

Queries == {QueryEmpty, QueryDer, QueryBe, QueryBer, QueryBerlin, QueryBergBer,
            QueryBergBerg}

\* The config overrides offered to search: none, and a prefix expansion cap of 1.
Configs == {<<>>, [maxPrefixExpansion |-> 1]}

Prefixes == {<<>>, <<"b">>, <<"b", "e", "r">>, <<"z">>}
Limits == {0, 2, 50}
LookupTerms == {<<"B", "E", "R", "G">>, <<"M", "ü", "l", "l", "e", "r">>, <<"z">>}

(***************************************************************************)
(* State machine                                                           *)
(***************************************************************************)

\* useSearch before its first effect has run: useState(null), useState(false),
\* useState(null); no request issued yet.  Null is a record like the values.
Null == [req |-> 0]
useState ==
    [ mounted |-> "rendering", params |-> "", data |-> Null, isLoading |-> FALSE,
      error |-> Null, requests |-> <<>> ]

Init ==
    /\ fieldIndex = [i \in Instances |-> [f \in Fields |-> createEmptyFieldIndex]]
    /\ termsSorted = [i \in Instances |-> [f \in Fields |-> <<>>]]
    /\ documents = [i \in Instances |-> EmptyMap]
    /\ photographers = [i \in Instances |-> {}]
    /\ restrictions = [i \in Instances |-> {}]
    /\ idfCache = EmptyIdfCache
    /\ queryLogs = <<>>
    /\ lifecycle = [i \in Instances |-> "building"]
    /\ ret = [op |-> "none"]
    /\ hook = useState

\* One InvertedIndex instance as search receives it.
IndexOf(i) ==
    [ fieldIndex |-> fieldIndex[i], termsSorted |-> termsSorted[i],
      documents |-> documents[i] ]

\* addDocument(docId, item); docId is a "unique document ID".
AddDocument(i, docId, item) ==
    /\ docId \notin DOMAIN documents[i]
    /\ documents' = [documents EXCEPT ![i] = (docId :> item) @@ @]
    /\ fieldIndex' = [fieldIndex EXCEPT ![i] =
           [f \in Fields |-> indexTokens(@[f], docId, FieldTokens(item, f))]]
    /\ photographers' = [photographers EXCEPT ![i] = @ \cup {item.fotografen}]
    /\ restrictions' = [restrictions EXCEPT ![i] = @ \cup Range(item.restrictions)]
    /\ lifecycle' = [lifecycle EXCEPT ![i] =
           IF @ = "building" THEN "building" ELSE "modified"]
    /\ ret' = [op |-> "addDocument", index |-> i]
    /\ UNCHANGED <<hook, termsSorted, idfCache, queryLogs>>

\* finalizeIndex building every sorted term list from the suchtext index.
FinalizeIndex_SuchtextTermsEverywhere(i) ==
    /\ fieldIndex' = [fieldIndex EXCEPT ![i] =
           [f \in Fields |->
               [fieldIndex[i][f] EXCEPT
                   !.avgDocLength = calculateAvgDocLength(fieldIndex[i][f])]]]
    /\ termsSorted' = [termsSorted EXCEPT ![i] =
           [f \in Fields |-> SortStrings(DOMAIN fieldIndex[i]["suchtext"].termPostings)]]
    /\ lifecycle' = [lifecycle EXCEPT ![i] = "finalized"]
    /\ ret' = [op |-> "finalizeIndex", index |-> i]
    /\ UNCHANGED <<hook, documents, photographers, restrictions, idfCache, queryLogs>>

FinalizeIndex(i) ==
    /\ fieldIndex' = [fieldIndex EXCEPT ![i] =
           [f \in Fields |->
               [fieldIndex[i][f] EXCEPT
                   !.avgDocLength = calculateAvgDocLength(fieldIndex[i][f])]]]
    /\ termsSorted' = [termsSorted EXCEPT ![i] =
           [f \in Fields |-> SortStrings(DOMAIN fieldIndex[i][f].termPostings)]]
    /\ lifecycle' = [lifecycle EXCEPT ![i] = "finalized"]
    /\ ret' = [op |-> "finalizeIndex", index |-> i]
    /\ UNCHANGED <<hook, documents, photographers, restrictions, idfCache, queryLogs>>

\* The calls that only read the index.
ReadOnly(r) ==
    /\ ret' = r
    /\ UNCHANGED <<hook, fieldIndex, termsSorted, documents, photographers, restrictions,
                   idfCache, queryLogs, lifecycle>>

GetPostings(i, term, field) ==
    ReadOnly([ op |-> "getPostings", index |-> i, term |-> term, field |-> field,
               value |-> getPostings(fieldIndex[i][field], term) ])

GetPrefixTerms(i, prefix, field, limit) ==
    ReadOnly([ op |-> "getPrefixTerms", index |-> i, prefix |-> prefix,
               field |-> field, limit |-> limit,
               value |-> getPrefixTerms(termsSorted[i][field], prefix, limit) ])

\* getDocument(docId): the document, or undefined (a hole here).
GetDocument(i, docId) ==
    ReadOnly([ op |-> "getDocument", index |-> i, docId |-> docId,
               value |-> IF docId \in DOMAIN documents[i]
                         THEN documents[i][docId] ELSE Hole ])

GetAllDocuments(i) ==
    ReadOnly([op |-> "getAllDocuments", index |-> i, value |-> documents[i]])

GetPhotographers(i) ==
    ReadOnly([ op |-> "getPhotographers", index |-> i,
               value |-> SortStrings(photographers[i]) ])

GetRestrictions(i) ==
    ReadOnly([ op |-> "getRestrictions", index |-> i,
               value |-> SortStrings(restrictions[i]) ])

\* What a search call leaves behind: the cache it filled and its return value.
SearchReturns(i, query, config, out) ==
    /\ idfCache' = out.cache
    /\ ret' = [ op |-> "search", index |-> i, query |-> query, config |-> config,
                value |-> out.results, uses |-> out.uses ]

\* search(query, index, config): returns the results and fills the IDF cache.
\* finalizeIndex "must be called before performing searches".
Search(i, query, config) ==
    /\ lifecycle[i] # "building"
    /\ SearchReturns(i, query, config, search(query, IndexOf(i), config, idfCache))
    /\ UNCHANGED <<hook, fieldIndex, termsSorted, documents, photographers, restrictions,
                   queryLogs, lifecycle>>

\* The next free slot of the documents array: callers add documents in ascending
\* id order from 0 (index.ts: forEach((item, idx) => addDocument(idx, item))).
NextDocId(i) == ArrayLength(documents[i])

\* The class InvertedIndex: one instance and its public methods, called in any
\* order (no method checks that finalizeIndex has or has not been called).
Next ==
    \/ \E d \in 0..(MaxDocs - 1), item \in Items :
          d = NextDocId(1) /\ AddDocument(1, d, item)
    \/ FinalizeIndex(1)
    \/ \E t \in LookupTerms, f \in Fields : GetPostings(1, t, f)
    \/ \E p \in Prefixes, f \in Fields, l \in Limits : GetPrefixTerms(1, p, f, l)
    \/ \E d \in 0..(MaxDocs - 1) : GetDocument(1, d)
    \/ GetAllDocuments(1)
    \/ GetPhotographers(1)
    \/ GetRestrictions(1)

Spec == Init /\ [][Next]_vars

\* The search module as index.ts runs it: the index is built in id order,
\* finalized once, and searched from then on.
NextService ==
    \/ \E d \in 0..(MaxDocs - 1), item \in Items :
          /\ lifecycle[1] = "building"
          /\ d = NextDocId(1)
          /\ AddDocument(1, d, item)
    \/ lifecycle[1] = "building" /\ FinalizeIndex(1)
    \/ \E q \in Queries, c \in Configs : Search(1, q, c)

SpecService == Init /\ [][NextService]_vars

(***************************************************************************)
(* Properties of the InvertedIndex class (checked under Spec)              *)
(***************************************************************************)

\* The documents of instance i whose field-f token stream contains term.
DocsContaining(i, f, term) ==
    {d \in DOMAIN documents[i] : term \in Range(FieldTokens(documents[i][d], f))}

\* Every term of field f of instance i: indexed, or occurring in a stored document.
TermsOf(i, f) ==
    DOMAIN fieldIndex[i][f].termPostings
        \cup UNION {Range(FieldTokens(documents[i][d], f)) : d \in DOMAIN documents[i]}

PostingsOf(i, f, term) ==
    IF term \in DOMAIN fieldIndex[i][f].termPostings
    THEN fieldIndex[i][f].termPostings[term] ELSE <<>>

\* C3 (as claimed): once finalizeIndex has been called on an instance, no call
\* changes termPostings, docLengths, totalDocs or avgDocLength of any field, nor
\* the sorted vocabularies.
C3_ImmutableAfterFinalize ==
    [][lifecycle[1] # "building"
         => fieldIndex'[1] = fieldIndex[1] /\ termsSorted'[1] = termsSorted[1]]_vars

\* C5: after addDocument for ids 0..N-1, every field has a docLengths entry for
\* exactly the ids 0..N-1, the entry is the field's token count (0 when the field
\* yields no tokens), and totalDocs is N.
C5_DocLengthsCoverEveryDocument ==
    LET N == ArrayLength(documents[1]) IN
    /\ DOMAIN documents[1] = 0..(N - 1)
    /\ \A f \in Fields :
          /\ DOMAIN fieldIndex[1][f].docLengths = 0..(N - 1)
          /\ fieldIndex[1][f].totalDocs = N
          /\ \A d \in 0..(N - 1) :
                fieldIndex[1][f].docLengths[d] = Len(FieldTokens(documents[1][d], f))

\* C5 witness: two or more documents are indexed and one of them has a field
\* without tokens, recorded with length 0.
C5_Witness ==
    /\ ArrayLength(documents[1]) >= 2
    /\ \E f \in Fields, d \in DOMAIN documents[1] :
          /\ FieldTokens(documents[1][d], f) = <<>>
          /\ d \in DOMAIN fieldIndex[1][f].docLengths
          /\ fieldIndex[1][f].docLengths[d] = 0

\* C6: on a finalized index (finalizeIndex ran after the last addDocument), in
\* every field avgDocLength is the sum of the docLengths entries divided by
\* their number, and 0 when there is no entry.
C6_AvgDocLengthIsMean ==
    lifecycle[1] = "finalized" =>
        \A f \in Fields :
            LET index == fieldIndex[1][f]
                n == Cardinality(DOMAIN index.docLengths)
            IN IF n = 0 THEN index.avgDocLength.num = 0
               ELSE index.avgDocLength.num * n
                        = SumOver(index.docLengths, DOMAIN index.docLengths)
                              * index.avgDocLength.den

\* C6 witness: a finalized index of several documents whose average length is
\* not a whole number, read after finalizeIndex returned.
C6_Witness ==
    /\ lifecycle[1] = "finalized"
    /\ ret.op = "getPostings"
    /\ ArrayLength(documents[1]) >= 2
    /\ \E f \in Fields : fieldIndex[1][f].avgDocLength.den > 1

\* C7: on a finalized index the sorted vocabulary of every field holds exactly
\* the keys of termPostings, each once, in strictly ascending string order.
C7_SortedVocabularyIsKeys ==
    lifecycle[1] = "finalized" =>
        \A f \in Fields :
            LET vocab == termsSorted[1][f] IN
            /\ Range(vocab) = DOMAIN fieldIndex[1][f].termPostings
            /\ Len(vocab) = Cardinality(DOMAIN fieldIndex[1][f].termPostings)
            /\ \A k \in 1..(Len(vocab) - 1) : StrLess(vocab[k], vocab[k + 1])

\* C7 witness: a finalized index whose fields have different vocabularies, one of
\* them with four or more terms.
C7_Witness ==
    /\ lifecycle[1] = "finalized"
    /\ Len(termsSorted[1]["suchtext"]) >= 4
    /\ termsSorted[1]["fotografen"] # <<>>
    /\ termsSorted[1]["fotografen"] # termsSorted[1]["suchtext"]

\* The terms of vocab that start with prefix, in vocabulary order.
Matching(vocab, prefix) == SelectSeq(vocab, LAMBDA t : StartsWith(t, prefix))

\* C8: on a finalized index getPrefixTerms(prefix, field, limit) returns the
\* first min(limit, k) of the k vocabulary terms that start with prefix, in
\* vocabulary order, and the empty list for an empty vocabulary or prefix.
C8_PrefixTermsAreFirstMatches ==
    (ret.op = "getPrefixTerms" /\ lifecycle[ret.index] = "finalized") =>
        LET vocab == termsSorted[ret.index][ret.field]
            matching == Matching(vocab, ret.prefix)
        IN IF vocab = <<>> \/ ret.prefix = <<>> THEN ret.value = <<>>
           ELSE ret.value = SubSeq(matching, 1, Min(ret.limit, Len(matching)))

\* C8 witness: three vocabulary terms start with the prefix, they are not at the
\* front of the vocabulary, and a limit of 2 cuts the answer short.
C8_Witness ==
    /\ ret.op = "getPrefixTerms"
    /\ lifecycle[ret.index] = "finalized"
    /\ ret.limit = 2
    /\ Len(ret.value) = 2
    /\ Len(Matching(termsSorted[ret.index][ret.field], ret.prefix)) = 3
    /\ ~StartsWith(termsSorted[ret.index][ret.field][1], ret.prefix)

(***************************************************************************)
(* Properties of search on a built index (checked under SpecService)       *)
(***************************************************************************)

\* C4: with documents 0..N-1 added once each in ascending order, no postings
\* list holds two postings of one docId, the length of the postings list of t in
\* f is the number of documents whose field-f tokens contain t, and that length
\* is the document frequency search passes to computeIDF.
C4_PostingsCountDocuments ==
    /\ \A f \in Fields : \A t \in TermsOf(1, f) :
          LET postings == PostingsOf(1, f, t) IN
          /\ \A j, k \in DOMAIN postings :
                postings[j].docId = postings[k].docId => j = k
          /\ Len(postings) = Cardinality(DocsContaining(1, f, t))
    /\ ret.op = "search" =>
          \A k \in DOMAIN ret.uses :
              ret.uses[k].computed =>
                  /\ ret.uses[k].docFreq
                         = Len(PostingsOf(ret.index, ret.uses[k].field, ret.uses[k].term))
                  /\ ret.uses[k].docFreq
                         = Cardinality(DocsContaining(ret.index, ret.uses[k].field,
                                                     ret.uses[k].term))

\* C4 witness: a search has just computed the IDF of a term found in two
\* documents, one of which holds the term twice.
C4_Witness ==
    /\ ret.op = "search"
    /\ \E k \in DOMAIN ret.uses :
          /\ ret.uses[k].computed
          /\ ret.uses[k].docFreq = 2
          /\ \E j \in DOMAIN PostingsOf(1, ret.uses[k].field, ret.uses[k].term) :
                PostingsOf(1, ret.uses[k].field, ret.uses[k].term)[j].termFrequency = 2

\* C9: a query that tokenizes to zero tokens returns one result per stored
\* document, in ascending docId order, each with score 0 and no matched terms.
C9_ZeroTokenQueryBrowses ==
    (ret.op = "search" /\ tokenize(ret.query) = <<>>) =>
        LET docs == documents[ret.index]
            N == Cardinality(DOMAIN docs)
        IN /\ Len(ret.value) = N
           /\ \A k \in 1..N :
                 ret.value[k] = [ docId |-> k - 1, item |-> docs[k - 1],
                                  score |-> 0, matchedTerms |-> <<>> ]

\* C9 witness: a stopword-only query was answered on an index whose documents
\* are not stored in date order.
C9_Witness ==
    /\ ret.op = "search"
    /\ ret.query = QueryDer
    /\ Len(ret.value) >= 2
    /\ \E k \in 1..(Len(ret.value) - 1) :
          StrLess(ret.value[k].item.dateISO, ret.value[k + 1].item.dateISO)

(***************************************************************************)
(* Two indexes in one process                                              *)
(***************************************************************************)

\* Documents per instance when two instances share the searcher module.
MaxSharedDocs == 2

SharedItems == {ItemBerlin, ItemBerg}
SharedQueries == {QueryBerlin, QueryBer}

\* searcher.ts holds one idfCache for the process; search takes the index as a
\* parameter.  Two InvertedIndex instances, each built in id order, finalized
\* once and searched from then on, with the default config.
NextShared ==
    \/ \E i \in Instances, d \in 0..(MaxSharedDocs - 1), item \in SharedItems :
          /\ lifecycle[i] = "building"
          /\ d = NextDocId(i)
          /\ AddDocument(i, d, item)
    \/ \E i \in Instances : lifecycle[i] = "building" /\ FinalizeIndex(i)
    \/ \E i \in Instances, q \in SharedQueries : Search(i, q, <<>>)

SpecShared == Init /\ [][NextShared]_vars

\* C1 (as claimed): what search returns is determined by the index contents, the
\* query and the config alone, whatever searches ran before on this or another
\* instance: it is what the same call returns when no search ran before it.
C1_SearchIsFunctionOfInputs ==
    ret.op = "search" =>
        ret.value = search(ret.query, IndexOf(ret.index), ret.config, EmptyIdfCache).results

\* C2 (as claimed): every IDF value a search uses for term t in field f, cached
\* or freshly computed, is computeIDF(number of postings of t in f, totalDocs of
\* f) on the index being searched.
C2_IdfIsOfSearchedIndex ==
    ret.op = "search" =>
        \A k \in DOMAIN ret.uses :
            ret.uses[k].idf
                = computeIDF(Len(PostingsOf(ret.index, ret.uses[k].field, ret.uses[k].term)),
                             fieldIndex[ret.index][ret.uses[k].field].totalDocs)

(***************************************************************************)
(* route.ts: GET /api/search, and logQuery                                 *)
(***************************************************************************)

\* !q.trim(): the string is empty or whitespace only.
IsBlank(s) == \A k \in DOMAIN s : s[k] = " "

Digits == {c \in Chars : CharCode[c] >= 48 /\ CharCode[c] <= 57}

RECURSIVE SkipSpaces(_)
SkipSpaces(s) == IF s # <<>> /\ Head(s) = " " THEN SkipSpaces(Tail(s)) ELSE s

\* The value of the leading run of digits of s, continuing from acc.
RECURSIVE DigitRun(_, _)
DigitRun(s, acc) ==
    IF s # <<>> /\ Head(s) \in Digits
    THEN DigitRun(Tail(s), acc * 10 + (CharCode[Head(s)] - 48))
    ELSE acc

\* parseInt(value, 10): leading whitespace, an optional sign, then digits up to
\* the first other character; NaN when there is no digit.
ParseInt(value) ==
    LET s == SkipSpaces(value)
        negative == s # <<>> /\ Head(s) = "-"
        body == IF negative THEN Tail(s) ELSE s
    IN IF body = <<>> \/ Head(body) \notin Digits THEN [nan |-> TRUE, n |-> 0]
       ELSE [nan |-> FALSE, n |-> IF negative THEN 0 - DigitRun(body, 0)
                                               ELSE DigitRun(body, 0)]

\* A missing parameter (null) and an empty one are both the empty string here:
\* the handler only tests parameters for truthiness.
parsePage(value) ==
    IF value = <<>> THEN 1
    ELSE LET parsed == ParseInt(value) IN
         IF parsed.nan \/ parsed.n < 1 THEN 1 ELSE parsed.n

parsePageSize(value) ==
    IF value = <<>> THEN 20
    ELSE LET parsed == ParseInt(value) IN
         IF parsed.nan THEN 20
         ELSE Min(IF parsed.n >= 1 THEN parsed.n ELSE 1, 100)

SortAsc == <<"a", "s", "c">>
SortDesc == <<"d", "e", "s", "c">>

parseSort(value) ==
    IF value = SortAsc THEN "asc" ELSE IF value = SortDesc THEN "desc" ELSE "undefined"

\* applyFilters where selecting 'none' excludes every record with markers, also
\* those holding another selected marker.
applyFilters_NoneExcludes(items, credit, dateFrom, dateTo, restrictionFilter) ==
    LET keeps(item) ==
            /\ ~(credit # <<>> /\ item.fotografen # credit)
            /\ ~(dateFrom # <<>> /\ item.dateISO # <<>> /\ StrLess(item.dateISO, dateFrom))
            /\ ~(dateTo # <<>> /\ item.dateISO # <<>> /\ StrLess(dateTo, item.dateISO))
            /\ \/ Len(restrictionFilter) = 0
               \/ NoRestriction \in Range(restrictionFilter) /\ Len(item.restrictions) = 0
               \/ /\ NoRestriction \notin Range(restrictionFilter)
                  /\ \E r \in Range(restrictionFilter) : r \in Range(item.restrictions)
    IN SelectSeq(items, LAMBDA r : keeps(r.item))

applyFilters(items, credit, dateFrom, dateTo, restrictionFilter) ==
    LET keeps(item) ==
            /\ ~(credit # <<>> /\ item.fotografen # credit)
            /\ ~(dateFrom # <<>> /\ item.dateISO # <<>> /\ StrLess(item.dateISO, dateFrom))
            /\ ~(dateTo # <<>> /\ item.dateISO # <<>> /\ StrLess(dateTo, item.dateISO))
            /\ \/ Len(restrictionFilter) = 0
               \/ NoRestriction \in Range(restrictionFilter) /\ Len(item.restrictions) = 0
               \/ \E r \in Range(restrictionFilter) \ {NoRestriction} :
                     r \in Range(item.restrictions)
    IN SelectSeq(items, LAMBDA r : keeps(r.item))

\* [...items].sort by dateISO; localeCompare orders ISO dates, and the empty
\* string before them, as code units do.
sortByDate(items, order) ==
    StableSort(items,
               LAMBDA a, b : IF order = "asc" THEN StrLess(a.item.dateISO, b.item.dateISO)
                             ELSE StrLess(b.item.dateISO, a.item.dateISO))

\* Query mode or browse mode: what the handler filters, with the IDF cache
\* afterwards.
SearchOrBrowse(q, index, cache) ==
    IF ~IsBlank(q) THEN search(q, index, <<>>, cache)
    ELSE [results |-> BrowseAll(index), cache |-> cache, uses |-> <<>>]

\* The { item, score, matchedTerms } records the handler keeps of the results.
ResultItems(found) ==
    [k \in DOMAIN found |->
        [ item |-> found[k].item, score |-> found[k].score,
          matchedTerms |-> found[k].matchedTerms ]]

\* The sorting step with the default sort applied in query mode too.
ApplySorting_AlwaysNewest(request, filtered) ==
    IF parseSort(request.sort) # "undefined"
    THEN sortByDate(filtered, parseSort(request.sort))
    ELSE sortByDate(filtered, "desc")

\* The sorting step: explicit sort, newest first for a blank q, else as found.
ApplySorting(request, filtered) ==
    IF parseSort(request.sort) # "undefined"
    THEN sortByDate(filtered, parseSort(request.sort))
    ELSE IF IsBlank(request.q) THEN sortByDate(filtered, "desc")
    ELSE filtered

\* Filters and sorting applied to what search or browse returned.
FilterAndSortFound(request, out) ==
    [ results |-> ApplySorting(request,
                      applyFilters(ResultItems(out.results), request.credit,
                                   request.dateFrom, request.dateTo, request.restriction)),
      cache |-> out.cache ]

\* The handler from the search-or-browse branch to the sorted list (results
\* before pagination), with the IDF cache afterwards.
FilterAndSort(request, index, cache) ==
    FilterAndSortFound(request, SearchOrBrowse(request.q, index, cache))

\* slice taking the element at endIndex as well.
Slice_Inclusive(xs, startIndex, endIndex) ==
    IF startIndex >= Len(xs) THEN <<>>
    ELSE SubSeq(xs, startIndex + 1, Min(endIndex + 1, Len(xs)))

\* results.slice(startIndex, endIndex)
Slice(xs, startIndex, endIndex) ==
    IF startIndex >= Len(xs) THEN <<>>
    ELSE SubSeq(xs, startIndex + 1, Min(endIndex, Len(xs)))

\* transformResults without the snippet fields: the item with its score.
transformResults(items) ==
    [k \in DOMAIN items |-> [item |-> items[k].item, score |-> items[k].score]]

MAX_LOGS == 10000

\* logQuery dropping the entry it just pushed when the log is over its cap.
logQuery_DropNewest(logs, entry) ==
    LET pushed == Append(logs, entry) IN
    IF Len(pushed) > MAX_LOGS THEN SubSeq(pushed, 1, Len(pushed) - 1) ELSE pushed

\* logQuery(entry) on the log: the log afterwards.
logQuery(logs, entry) ==
    LET pushed == Append(logs, entry) IN
    IF Len(pushed) > MAX_LOGS THEN Tail(pushed) ELSE pushed

\* Math.max(1, Math.ceil(total / pageSize))
TotalPages(total, pageSize) ==
    IF total = 0 THEN 1 ELSE (total + pageSize - 1) \div pageSize

\* The response for the sorted list: pagination and transformation.
Response(request, results, page, pageSize) ==
    [ op |-> "GET", request |-> request, results |-> results,
      items |-> transformResults(Slice(results, (page - 1) * pageSize,
                                       (page - 1) * pageSize + pageSize)),
      page |-> page, pageSize |-> pageSize, total |-> Len(results),
      totalPages |-> TotalPages(Len(results), pageSize) ]

\* The handler's effects once the sorted list is known.
Respond(request, out) ==
    /\ idfCache' = out.cache
    /\ queryLogs' = logQuery(queryLogs,
                             [query |-> request.q, resultCount |-> Len(out.results)])
    /\ ret' = Response(request, out.results, parsePage(request.page),
                       parsePageSize(request.pageSize))

\* GET /api/search on the singleton index (instance 1), built and finalized when
\* the module loaded.  Timing fields of the response and the log are left out.
GET(request) ==
    /\ lifecycle[1] = "finalized"
    /\ Respond(request, FilterAndSort(request, IndexOf(1), idfCache))
    /\ UNCHANGED <<hook, fieldIndex, termsSorted, documents, photographers, restrictions,
                   lifecycle>>

\* Documents in the corpus behind the endpoint, and requests served.
MaxApiDocs == 2
MaxRequests == 1

\* q of white space only: q.trim() is empty.
QueryBlank == <<" ">>

DateFilter0201 == <<"2", "0", "2", "4", "-", "0", "2", "-", "0", "1">>
CreditImago == <<"I", "M", "A", "G", "O">>

\* The requests offered: every query and sort value, with at most one of the
\* filters or the paging parameters set.
Requests ==
    LET all == [ q : {QueryEmpty, QueryBlank, QueryDer, QueryBer},
                 sort : {<<>>, SortAsc, SortDesc},
                 credit : {<<>>, CreditImago},
                 dateFrom : {<<>>, DateFilter0201},
                 dateTo : {<<>>, DateFilter0201},
                 restriction : {<<>>, <<NoRestriction>>, <<MarkerABxD>>,
                                <<NoRestriction, MarkerABxD>>},
                 page : {<<>>, <<"2">>},
                 pageSize : {<<>>, <<"1">>} ]
        set(r) == {k \in {"credit", "dateFrom", "dateTo", "restriction"} : r[k] # <<>>}
                      \cup (IF r.page # <<>> \/ r.pageSize # <<>> THEN {"paging"} ELSE {})
    IN {r \in all : Cardinality(set(r)) <= 1}

\* The endpoint: the module loads (index built in id order and finalized), then
\* requests are served.
NextApi ==
    \/ \E d \in 0..(MaxApiDocs - 1), item \in Items :
          /\ lifecycle[1] = "building"
          /\ d = NextDocId(1)
          /\ AddDocument(1, d, item)
    \/ lifecycle[1] = "building" /\ FinalizeIndex(1)
    \/ \E r \in Requests : Len(queryLogs) < MaxRequests /\ GET(r)

SpecApi == Init /\ [][NextApi]_vars

\* C10 (as claimed): a query of stopwords only behaves as the empty query: search
\* returns the same results for both, and for any filters and sort parameter
\* (also none) the endpoint's filter-and-sort layer yields the same results in
\* the same order for both.
C10_StopwordQueryIsEmptyQuery ==
    (ret.op = "GET" /\ ret.request.q # <<>> /\ tokenize(ret.request.q) = <<>>) =>
        /\ search(ret.request.q, IndexOf(1), <<>>, idfCache).results
               = search(QueryEmpty, IndexOf(1), <<>>, idfCache).results
        /\ ret.results
               = FilterAndSort([ret.request EXCEPT !.q = QueryEmpty],
                               IndexOf(1), idfCache).results

(***************************************************************************)
(* Properties of matching, ranking and prefix expansion (SpecService)      *)
(***************************************************************************)

\* Document d of instance i has a posting for term in field f.
HasPosting(i, d, f, term) ==
    \E k \in DOMAIN PostingsOf(i, f, term) : PostingsOf(i, f, term)[k].docId = d

\* The documents a query's tokens reach under cfg: through a posting of the token
\* itself, or, for a token of minPrefixLength or more, through a posting of a term
\* getPrefixTerms returns for it.
MatchedDocs(i, queryTerms, cfg) ==
    {d \in DOMAIN documents[i] :
        \E k \in DOMAIN queryTerms, f \in Fields :
            \/ HasPosting(i, d, f, queryTerms[k])
            \/ /\ Len(queryTerms[k]) >= cfg.minPrefixLength
               /\ \E t \in Range(getPrefixTerms(termsSorted[i][f], queryTerms[k],
                                                cfg.maxPrefixExpansion)) :
                     HasPosting(i, d, f, t)}

\* C11: for a query with at least one token the documents in search's results
\* are exactly those with a posting, in some field, for a query token or (token
\* of minPrefixLength or more) for a term getPrefixTerms returns for it; each
\* document appears once; tokens that match nothing give the empty list.
C11_ResultsAreMatchedDocuments ==
    (ret.op = "search" /\ tokenize(ret.query) # <<>>) =>
        LET matched == MatchedDocs(ret.index, tokenize(ret.query), MergeConfig(ret.config))
        IN /\ {ret.value[k].docId : k \in DOMAIN ret.value} = matched
           /\ Len(ret.value) = Cardinality(matched)
           /\ matched = {} => ret.value = <<>>

\* C11 witness: a search for 'ber' returned one document found through an
\* expansion only, and left out another stored document.
C11_Witness ==
    /\ ret.op = "search"
    /\ ret.query = QueryBer
    /\ \E k \in DOMAIN ret.value :
          \A f \in Fields : ~HasPosting(ret.index, ret.value[k].docId, f, QueryBer)
    /\ \E d \in DOMAIN documents[ret.index] :
          \A k \in DOMAIN ret.value : ret.value[k].docId # d


\* "Berg" by "Berlin" again, dated 2024-03-14: scores as ItemBerg does.
ItemBergLater == [ItemBerg EXCEPT !.dateISO = Date0314]

\* "Berlin" by "Berlin": found by 'ber' only through the expansion 'berlin'.
ItemBerlinCity ==
    [ bildnummer |-> <<>>,
      suchtext   |-> <<"B", "e", "r", "l", "i", "n">>,
      fotografen |-> <<"B", "e", "r", "l", "i", "n">>,
      dateISO    |-> Date0101,
      restrictions |-> <<>> ]

RankItems == {ItemBerg, ItemBergLater, ItemBer, ItemBerlinCity}
RankQueries == {QueryDer, QueryBer, QueryBerlin}

\* Config overrides: none, prefix expansion disabled, and capped at one term.
RankConfigs == {<<>>, [maxPrefixExpansion |-> 0], [maxPrefixExpansion |-> 1]}

\* The service over a corpus in which documents tie on score and share prefixes:
\* built in id order, finalized once, then searched.
NextRanking ==
    \/ \E d \in 0..(MaxDocs - 1), item \in RankItems :
          /\ lifecycle[1] = "building"
          /\ d = NextDocId(1)
          /\ AddDocument(1, d, item)
    \/ lifecycle[1] = "building" /\ FinalizeIndex(1)
    \/ \E q \in RankQueries, c \in RankConfigs : Search(1, q, c)

SpecRanking == Init /\ [][NextRanking]_vars

\* The list is ordered by score descending and, among equal scores, by dateISO
\* descending in string order.
RankedNewestFirst(results) ==
    \A i, j \in DOMAIN results :
        i < j => /\ results[i].score >= results[j].score
                 /\ results[i].score = results[j].score
                        => ~StrLess(results[i].item.dateISO, results[j].item.dateISO)

\* C12 (as claimed): the list search returns for a non-empty query is ordered by
\* score descending, ties by dateISO descending (newest first).
C12_NonEmptyQueryIsRanked ==
    (ret.op = "search" /\ ret.query # <<>>) => RankedNewestFirst(ret.value)

\* C12 (amended): the list search returns for a query with at least one token is
\* ordered by score descending, ties by dateISO descending (newest first).
C12_TokenQueryIsRanked ==
    (ret.op = "search" /\ tokenize(ret.query) # <<>>) => RankedNewestFirst(ret.value)

\* C12 witness: a search with a token returned two documents of equal score, the
\* newer one first although it was stored later, and a document of another score.
C12_Witness ==
    /\ ret.op = "search"
    /\ tokenize(ret.query) # <<>>
    /\ \E k \in 1..(Len(ret.value) - 1) :
          /\ ret.value[k].score = ret.value[k + 1].score
          /\ ret.value[k].docId > ret.value[k + 1].docId
          /\ StrLess(ret.value[k + 1].item.dateISO, ret.value[k].item.dateISO)
    /\ \E k \in DOMAIN ret.value : ret.value[k].score # ret.value[1].score


(***************************************************************************)
(* Prefix penalty (checked under SpecRanking)                              *)
(***************************************************************************)

\* The amount the (term, f, d) posting of instance i adds to d's score when term
\* is queried exactly: the BM25 term score times the field weight, 0 without a
\* posting.
ExactAmount(i, term, f, d, cfg) ==
    IF ~HasPosting(i, d, f, term) THEN 0
    ELSE LET postings == PostingsOf(i, f, term)
             k == CHOOSE n \in DOMAIN postings : postings[n].docId = d
             index == fieldIndex[i][f]
         IN FxMul(computeTermScore(postings[k].termFrequency, index.docLengths[d],
                                   index.avgDocLength,
                                   computeIDF(Len(postings), index.totalDocs),
                                   cfg.k1, cfg.b),
                  FieldWeight(f, cfg))

\* The vocabulary terms of field f scored as prefix expansions of a query token.
ExpansionsOf(i, term, f, cfg) ==
    IF Len(term) >= cfg.minPrefixLength
    THEN Range(getPrefixTerms(termsSorted[i][f], term, cfg.maxPrefixExpansion)) \ {term}
    ELSE {}

\* The score of document d for the query terms when every exact posting counts
\* in full and every expansion's posting counts prefixPenalty times its exact
\* amount, once.
PenalisedScore(i, d, queryTerms, cfg) ==
    SumOver([p \in (DOMAIN queryTerms) \X Fields |->
                ExactAmount(i, queryTerms[p[1]], p[2], d, cfg)
                + SumOver([t \in ExpansionsOf(i, queryTerms[p[1]], p[2], cfg) |->
                              FxMul(ExactAmount(i, t, p[2], d, cfg), cfg.prefixPenalty)],
                          ExpansionsOf(i, queryTerms[p[1]], p[2], cfg))],
            (DOMAIN queryTerms) \X Fields)

TermBer == <<"b", "e", "r">>
TermBerlin == <<"b", "e", "r", "l", "i", "n">>

\* The score of document d among results, 0 when it is not among them.
ScoreIn(results, d) ==
    IF \E k \in DOMAIN results : results[k].docId = d
    THEN results[CHOOSE k \in DOMAIN results : results[k].docId = d].score
    ELSE 0

\* Every returned score is the penalised sum of the exact amounts.
ScoresArePenalisedSums ==
    (ret.op = "search" /\ tokenize(ret.query) # <<>>) =>
        \A k \in DOMAIN ret.value :
            ret.value[k].score = PenalisedScore(ret.index, ret.value[k].docId,
                                                tokenize(ret.query), MergeConfig(ret.config))

\* Document d, found by 'ber' through 'berlin' alone, scores prefixPenalty times,
\* field by field, what it scores in berlinResults, and strictly less.
BerlinViaBer(i, d, score, cfg, berlinResults) ==
    /\ score = SumOver([f \in Fields |->
                          FxMul(ExactAmount(i, TermBerlin, f, d, cfg), cfg.prefixPenalty)],
                       Fields)
    /\ ScoreIn(berlinResults, d) = SumOver([f \in Fields |->
                                              ExactAmount(i, TermBerlin, f, d, cfg)], Fields)
    /\ score < ScoreIn(berlinResults, d)

\* 'berlin' is among the scored expansions of 'ber' in every field where d holds it.
BerlinExpandedEverywhere(i, d, cfg) ==
    \A f \in Fields :
        HasPosting(i, d, f, TermBerlin) => TermBerlin \in ExpansionsOf(i, TermBer, f, cfg)

ExpansionUses(f) ==
    {k \in DOMAIN ret.uses : ret.uses[k].isPrefix /\ ret.uses[k].field = f}

\* The documents holding one of the query terms itself in some field.
ExactlyMatched(i, queryTerms) ==
    {d \in DOMAIN documents[i] :
        \E k \in DOMAIN queryTerms, f \in Fields : HasPosting(i, d, f, queryTerms[k])}

\* The score of document d from the exact postings of the query terms alone.
ExactScore(i, d, queryTerms, cfg) ==
    SumOver([p \in (DOMAIN queryTerms) \X Fields |->
                ExactAmount(i, queryTerms[p[1]], p[2], d, cfg)],
            (DOMAIN queryTerms) \X Fields)

\* C14: with maxPrefixExpansion = m at most m vocabulary terms per (query token,
\* field) are scored as prefix expansions; with m = 0 none is, and search returns
\* exactly the documents holding a query token, with the scores and matchedTerms
\* of exact matching alone.
C14_ExpansionIsCapped ==
    (ret.op = "search" /\ tokenize(ret.query) # <<>>) =>
        LET cfg == MergeConfig(ret.config)
            queryTerms == tokenize(ret.query)
        IN /\ \A f \in Fields :
                 Cardinality(ExpansionUses(f)) <= cfg.maxPrefixExpansion * Len(queryTerms)
           /\ cfg.maxPrefixExpansion = 0 =>
                 /\ \A k \in DOMAIN ret.uses : ~ret.uses[k].isPrefix
                 /\ {ret.value[k].docId : k \in DOMAIN ret.value}
                        = ExactlyMatched(ret.index, queryTerms)
                 /\ Len(ret.value) = Cardinality(ExactlyMatched(ret.index, queryTerms))
                 /\ \A k \in DOMAIN ret.value :
                       /\ ret.value[k].score
                              = ExactScore(ret.index, ret.value[k].docId, queryTerms, cfg)
                       /\ Range(ret.value[k].matchedTerms)
                              = {t \in Range(queryTerms) : \E f \in Fields :
                                    HasPosting(ret.index, ret.value[k].docId, f, t)}
                       /\ Len(ret.value[k].matchedTerms)
                              = Cardinality(Range(ret.value[k].matchedTerms))

\* C14 witness: with m = 0 'ber' returned the document holding 'ber' and left out
\* one holding 'berlin'.
C14_Witness ==
    /\ ret.op = "search" /\ ret.query = QueryBer
    /\ MergeConfig(ret.config).maxPrefixExpansion = 0
    /\ ret.value # <<>>
    /\ \E d \in DOMAIN documents[ret.index] :
          /\ \E f \in Fields : HasPosting(ret.index, d, f, TermBerlin)
          /\ \A k \in DOMAIN ret.value : ret.value[k].docId # d

\* C14 witness of the cap: with m = 1 one expansion of 'ber' was scored in a field
\* whose vocabulary holds two.
C14_CapWitness ==
    /\ ret.op = "search" /\ ret.query = QueryBer
    /\ MergeConfig(ret.config).maxPrefixExpansion = 1
    /\ \E f \in Fields :
          /\ Cardinality(ExpansionUses(f)) = 1
          /\ Cardinality({t \in Range(termsSorted[ret.index][f]) :
                             StartsWith(t, TermBer) /\ t # TermBer}) >= 2


(***************************************************************************)
(* Filters and sorting of the endpoint (checked under SpecApi)             *)
(***************************************************************************)

\* C15 (as claimed): with dateFrom = d1 (dateTo = d2) set, every record the
\* filter layer keeps has a non-empty dateISO that is >= d1 (<= d2) in
\* lexicographic order; a record with empty dateISO is never kept under a date
\* bound.
C15_DateBoundsKeepOnlyDated ==
    ret.op = "GET" =>
        \A k \in DOMAIN ret.results :
            LET dateISO == ret.results[k].item.dateISO IN
            /\ ret.request.dateFrom # <<>> =>
                  dateISO # <<>> /\ ~StrLess(dateISO, ret.request.dateFrom)
            /\ ret.request.dateTo # <<>> =>
                  dateISO # <<>> /\ ~StrLess(ret.request.dateTo, dateISO)


\* A record with these markers passes the restrictions filter R: 'none' is
\* selected and it has no marker, or it holds a selected marker other than 'none'.
PassesRestrictions(markers, R) ==
    \/ NoRestriction \in Range(R) /\ markers = <<>>
    \/ (Range(markers) \cap (Range(R) \ {NoRestriction})) # {}

\* The positions of the found records that pass the restrictions filter R.
PassingFound(found, R) ==
    {k \in DOMAIN found : PassesRestrictions(found[k].item.restrictions, R)}

\* What the last request kept of the found records is what passes R.
KeptArePassing(found) ==
    /\ \A k \in DOMAIN ret.results :
          PassesRestrictions(ret.results[k].item.restrictions, ret.request.restriction)
    /\ Len(ret.results) = Cardinality(PassingFound(found, ret.request.restriction))

\* C16: with a non-empty restrictions filter R (and no other filter) the filter
\* layer keeps exactly the found records for which 'none' is in R and the record
\* has no markers, or the record holds a marker of R other than 'none'; R =
\* ['none'] keeps exactly the records without markers.
C16_RestrictionsFilterIsUnion ==
    (ret.op = "GET" /\ ret.request.restriction # <<>>) =>
        KeptArePassing(SearchOrBrowse(ret.request.q, IndexOf(1), idfCache).results)

\* C16 witness: R = ['none', marker] kept a record without markers and a record
\* holding the marker.
C16_Witness ==
    /\ ret.op = "GET"
    /\ ret.request.restriction = <<NoRestriction, MarkerABxD>>
    /\ \E k \in DOMAIN ret.results : ret.results[k].item.restrictions = <<>>
    /\ \E k \in DOMAIN ret.results : ret.results[k].item.restrictions = <<MarkerABxD>>

\* C16 witness for R = ['none']: a record without markers kept, one with a marker
\* dropped.
C16_NoneWitness ==
    /\ ret.op = "GET" /\ ret.request.restriction = <<NoRestriction>>
    /\ Len(ret.results) = 1
    /\ \E d \in DOMAIN documents[1] : documents[1][d].restrictions # <<>>
    /\ IsBlank(ret.request.q)


\* results is in dateISO order, ascending or descending (equal dates in any order).
DateOrdered(results, order) ==
    \A k \in 1..(Len(results) - 1) :
        IF order = "asc"
        THEN ~StrLess(results[k + 1].item.dateISO, results[k].item.dateISO)
        ELSE ~StrLess(results[k].item.dateISO, results[k + 1].item.dateISO)

\* The found records that pass the filters of the last request, in found order.
FilteredFound(found) ==
    applyFilters(ResultItems(found), ret.request.credit, ret.request.dateFrom,
                 ret.request.dateTo, ret.request.restriction)

\* The sorted list of the last request against the filtered list it was made of.
SortedAsRequested(filtered) ==
    /\ Len(ret.results) = Len(filtered)
    /\ Range(ret.results) = Range(filtered)
    /\ parseSort(ret.request.sort) # "undefined" =>
          DateOrdered(ret.results, parseSort(ret.request.sort))
    /\ (parseSort(ret.request.sort) = "undefined" /\ IsBlank(ret.request.q)) =>
          DateOrdered(ret.results, "desc")
    /\ (parseSort(ret.request.sort) = "undefined" /\ ~IsBlank(ret.request.q)) =>
          ret.results = filtered

\* C17: in the filter-and-sort layer the filtered results are ordered by dateISO
\* ascending or descending when sort is 'asc' or 'desc'; by dateISO descending
\* when no sort is requested and the query is empty (q.trim() is empty); and in
\* the relative order produced by search when no sort is requested and the query
\* is not empty.
C17_SortOverridesOrKeepsSearchOrder ==
    ret.op = "GET" =>
        SortedAsRequested(FilteredFound(SearchOrBrowse(ret.request.q, IndexOf(1),
                                                       idfCache).results))

\* C17 witness: a query with a token and no sort kept two records in search
\* order, the older one first.
C17_Witness ==
    /\ ret.op = "GET" /\ ret.request.sort = <<>> /\ tokenize(ret.request.q) # <<>>
    /\ \E k \in 1..(Len(ret.results) - 1) :
          /\ StrLess(ret.results[k].item.dateISO, ret.results[k + 1].item.dateISO)
          /\ ret.results[k].score > ret.results[k + 1].score

\* C17 witness of the override: sort = 'asc' put the lower-scored older record
\* first.
C17_AscWitness ==
    /\ ret.op = "GET" /\ ret.request.sort = SortAsc /\ tokenize(ret.request.q) # <<>>
    /\ \E k \in 1..(Len(ret.results) - 1) :
          /\ StrLess(ret.results[k].item.dateISO, ret.results[k + 1].item.dateISO)
          /\ ret.results[k].score < ret.results[k + 1].score


(***************************************************************************)
(* The text functions on their own: tokenize and normalizeGerman applied   *)
(* to every short string over a small alphabet                             *)
(***************************************************************************)

\* Longest input text, and the characters it is made of: letters (of the stopword
\* 'in' too), the hyphen, a separator, an upper-case umlaut and the sharp s.
MaxTextLen == 3
TokenChars == {"a", "i", "n", "-", " ", "Ä", "ß"}

\* The strings of at most n characters of alphabet.
StringsUpTo(alphabet, n) == UNION {[1..k -> alphabet] : k \in 0..n}

\* No index is built and no request served while the text functions are called.
NoIndexState ==
    /\ fieldIndex = [i \in Instances |-> [f \in Fields |-> createEmptyFieldIndex]]
    /\ termsSorted = [i \in Instances |-> [f \in Fields |-> <<>>]]
    /\ documents = [i \in Instances |-> EmptyMap]
    /\ photographers = [i \in Instances |-> {}]
    /\ restrictions = [i \in Instances |-> {}]
    /\ idfCache = EmptyIdfCache
    /\ queryLogs = <<>>
    /\ lifecycle = [i \in Instances |-> "building"]
    /\ hook = useState

InitTokens ==
    /\ NoIndexState
    /\ \E text \in StringsUpTo(TokenChars, MaxTextLen) : ret = [op |-> "text", text |-> text]

\* tokenize(text)
Tokenize ==
    /\ ret.op = "text"
    /\ ReadOnly([op |-> "tokenize", text |-> ret.text, value |-> tokenize(ret.text)])

\* normalizeGerman(text)
NormalizeGerman ==
    /\ ret.op = "text"
    /\ ReadOnly([op |-> "normalizeGerman", text |-> ret.text,
                 value |-> normalizeGerman(ret.text)])

NextTokens == Tokenize \/ NormalizeGerman

SpecTokens == InitTokens /\ [][NextTokens]_vars

\* C18 (as claimed): every token tokenize returns, for any input string, has
\* length at least 2; no empty and no single-character token is emitted, also for
\* words with hyphens.
C18_TokensHaveLengthTwo ==
    ret.op = "tokenize" => \A k \in DOMAIN ret.value : Len(ret.value[k]) >= 2

\* C19: tokenize(normalizeGerman(x)) is the token sequence tokenize(x), and
\* normalizeGerman(normalizeGerman(x)) = normalizeGerman(x), for every string x.
C19_NormalizingTwiceChangesNothing ==
    /\ ret.op = "tokenize" => tokenize(normalizeGerman(ret.text)) = ret.value
    /\ ret.op = "normalizeGerman" => normalizeGerman(ret.value) = ret.value

\* C19 witness: a text with an upper-case umlaut and a sharp s, which
\* normalizeGerman changes, was tokenized to a token.
C19_Witness ==
    /\ ret.op = "tokenize"
    /\ {"Ä", "ß"} \subseteq Range(ret.text)
    /\ normalizeGerman(ret.text) # ret.text
    /\ ret.value # <<>>


(***************************************************************************)
(* preprocess.ts: extractRestrictions, applied to every short string over  *)
(* a small alphabet                                                        *)
(***************************************************************************)

\* text.match(RESTRICTION_PATTERN) || []: the matches from left to right, each
\* search resuming behind the previous match.
RECURSIVE MarkerMatches(_)
MarkerMatches(s) ==
    IF s = <<>> THEN <<>>
    ELSE IF MarkerAt(s) > 0
         THEN <<SubSeq(s, 1, MarkerAt(s))>> \o MarkerMatches(Drop(s, MarkerAt(s)))
         ELSE MarkerMatches(Tail(s))

\* The text with its first match only replaced by a space.
RECURSIVE ReplaceFirstMarker(_)
ReplaceFirstMarker(s) ==
    IF s = <<>> THEN <<>>
    ELSE IF MarkerAt(s) > 0 THEN <<" ">> \o Drop(s, MarkerAt(s))
    ELSE <<Head(s)>> \o ReplaceFirstMarker(Tail(s))

\* extractRestrictions with the pattern lacking the g flag: the first match only
\* is collected and replaced.
extractRestrictions_FirstOnly(text) ==
    IF text = <<>> THEN [restrictions |-> <<>>, cleanText |-> <<>>]
    ELSE [ restrictions |-> SubSeq(MarkerMatches(text), 1, Min(1, Len(MarkerMatches(text)))),
           cleanText |-> CollapseTrim(ReplaceFirstMarker(text)) ]

extractRestrictions(text) ==
    IF text = <<>> THEN [restrictions |-> <<>>, cleanText |-> <<>>]
    ELSE [ restrictions |-> MarkerMatches(text),
           cleanText |-> CollapseTrim(ReplaceMarkers(text)) ]

\* Longest input text, and its characters: an upper-case letter, the joining x,
\* a lower-case letter and the space.
MaxMarkerTextLen == 7
MarkerChars == {"B", "x", "a", " "}

InitMarkers ==
    /\ NoIndexState
    /\ \E text \in StringsUpTo(MarkerChars, MaxMarkerTextLen) :
          ret = [op |-> "text", text |-> text]

ExtractRestrictions ==
    /\ ret.op = "text"
    /\ ReadOnly([op |-> "extractRestrictions", text |-> ret.text,
                 value |-> extractRestrictions(ret.text)])

\* extractCleanSuchtext(suchtext), the index's copy of the cleaning.
ExtractCleanSuchtext ==
    /\ ret.op = "text"
    /\ ReadOnly([op |-> "extractCleanSuchtext", text |-> ret.text,
                 value |-> extractCleanSuchtext(ret.text)])

NextMarkers == ExtractRestrictions \/ ExtractCleanSuchtext

SpecMarkers == InitMarkers /\ [][NextMarkers]_vars

\* w as a whole is a match of [A-Z]+(x[A-Z]+)+ : upper-case runs joined by single
\* x, at least two runs.
IsMarker(w) ==
    /\ Len(w) >= 3
    /\ \A k \in DOMAIN w : w[k] \in UpperAZ \cup {"x"}
    /\ w[1] \in UpperAZ /\ w[Len(w)] \in UpperAZ
    /\ \E k \in DOMAIN w : w[k] = "x"
    /\ \A k \in 1..(Len(w) - 1) : ~(w[k] = "x" /\ w[k + 1] = "x")

\* The positions from which a match starts at or after from.
MarkerStarts(s, from) ==
    {a \in from..Len(s) : \E b \in a..Len(s) : IsMarker(SubSeq(s, a, b))}

SetMin(S) == CHOOSE x \in S : \A y \in S : x <= y
SetMax(S) == CHOOSE x \in S : \A y \in S : x >= y

\* The <<first, last>> positions of the matches of the pattern in s from
\* position from on: leftmost start, longest match, next search behind it.
RECURSIVE MatchSpans(_, _)
MatchSpans(s, from) ==
    IF MarkerStarts(s, from) = {} THEN <<>>
    ELSE LET a == SetMin(MarkerStarts(s, from))
             b == SetMax({e \in a..Len(s) : IsMarker(SubSeq(s, a, e))})
         IN <<<<a, b>>>> \o MatchSpans(s, b + 1)

InSpan(p, spans) == \E k \in DOMAIN spans : spans[k][1] <= p /\ p <= spans[k][2]

\* s with each span replaced by one space.
SpaceForSpans(s, spans) ==
    Concat([p \in DOMAIN s |->
               IF \E k \in DOMAIN spans : spans[k][1] = p THEN <<" ">>
               ELSE IF InSpan(p, spans) THEN <<>>
               ELSE <<s[p]>>])

\* The non-whitespace characters of s outside the spans, in order.
OutsideChars(s, spans) ==
    Concat([p \in DOMAIN s |->
               IF InSpan(p, spans) \/ s[p] = " " THEN <<>> ELSE <<s[p]>>])

NotSpace(c) == c # " "

\* The result of extractRestrictions(text) against the matches of the pattern.
ExtractsSpans(text, value, spans) ==
    /\ value.restrictions
           = [k \in DOMAIN spans |-> SubSeq(text, spans[k][1], spans[k][2])]
    /\ value.cleanText = CollapseTrim(SpaceForSpans(text, spans))
    /\ SelectSeq(value.cleanText, NotSpace) = OutsideChars(text, spans)
    /\ MarkerStarts(value.cleanText, 1) = {}
    /\ value.cleanText # <<>> =>
          /\ value.cleanText[1] # " " /\ value.cleanText[Len(value.cleanText)] # " "
          /\ \A k \in 1..(Len(value.cleanText) - 1) :
                ~(value.cleanText[k] = " " /\ value.cleanText[k + 1] = " ")

\* C20: extractRestrictions(x).restrictions is the list of all matches of
\* [A-Z]+(x[A-Z]+)+ in x from left to right, duplicates kept; cleanText is x with
\* each match replaced by one space, whitespace runs collapsed and the ends
\* trimmed, so it holds every non-whitespace character of x outside a marker in
\* the original order, and no marker.
C20_RestrictionsAreAllMatches ==
    ret.op = "extractRestrictions" =>
        ExtractsSpans(ret.text, ret.value, MatchSpans(ret.text, 1))

\* C20 witness: a text holding the same marker twice, and a character outside.
C20_Witness ==
    /\ ret.op = "extractRestrictions"
    /\ Len(ret.value.restrictions) = 2
    /\ ret.value.restrictions[1] = ret.value.restrictions[2]
    /\ ret.value.cleanText # <<>>


(***************************************************************************)
(* Markers and the description index                                       *)
(***************************************************************************)

MarkerBERxD == <<"B", "E", "R", "x", "D">>

\* "Bad BERxD" by "IMAGO": 'ber' occurs inside the marker only.
ItemBadMarked ==
    [ bildnummer |-> <<>>,
      suchtext   |-> <<"B", "a", "d", " ", "B", "E", "R", "x", "D">>,
      fotografen |-> <<"I", "M", "A", "G", "O">>,
      dateISO    |-> Date0101,
      restrictions |-> <<MarkerBERxD>> ]

MarkedItems == {ItemBadMarked, ItemBer, ItemBerg}
MarkedQueries == {QueryBer, MarkerBERxD}

\* The service over a corpus with markers in the descriptions.
NextMarked ==
    \/ \E d \in 0..(MaxDocs - 1), item \in MarkedItems :
          /\ lifecycle[1] = "building"
          /\ d = NextDocId(1)
          /\ AddDocument(1, d, item)
    \/ lifecycle[1] = "building" /\ FinalizeIndex(1)
    \/ \E q \in MarkedQueries : Search(1, q, <<>>)

SpecMarked == Init /\ [][NextMarked]_vars

\* The tokens of the suchtext outside its markers (each marker, found as a match
\* of the pattern, being a gap), and the tokens of the other two fields.
TokensOutsideMarkers(item, f) ==
    IF f = "suchtext"
    THEN Range(tokenize(SpaceForSpans(item.suchtext, MatchSpans(item.suchtext, 1))))
    ELSE Range(tokenize(item[f]))

\* C21: the suchtext postings of every added document are of the tokens of its
\* suchtext outside the restriction markers, none comes from a marker's text; so
\* a query for a component of a marker returns no document whose only occurrence
\* of that word is inside a marker of its description.
C21_MarkersAreNotIndexed ==
    /\ \A d \in DOMAIN documents[1] :
          {t \in DOMAIN fieldIndex[1]["suchtext"].termPostings :
              HasPosting(1, d, "suchtext", t)}
              = TokensOutsideMarkers(documents[1][d], "suchtext")
    /\ (ret.op = "search" /\ lifecycle[1] = "finalized") =>
          \A k \in DOMAIN ret.value :
              \E f \in Fields : \E t \in TokensOutsideMarkers(ret.value[k].item, f) :
                  \E n \in DOMAIN tokenize(ret.query) :
                      StartsWith(t, tokenize(ret.query)[n])

\* C21 witness: 'ber' returned a document and left out a stored one whose
\* description holds the marker BERxD.
C21_Witness ==
    /\ ret.op = "search" /\ ret.query = QueryBer
    /\ ret.value # <<>>
    /\ \E d \in DOMAIN documents[1] :
          /\ documents[1][d] = ItemBadMarked
          /\ \A k \in DOMAIN ret.value : ret.value[k].docId # d


(***************************************************************************)
(* preprocess.ts: parseDate, applied to texts built of digit groups,       *)
(* separators and surrounding white space                                  *)
(***************************************************************************)

\* String.prototype.trim on texts whose only white space is the space.
RECURSIVE TrimEnd(_)
TrimEnd(s) ==
    IF s # <<>> /\ s[Len(s)] = " " THEN TrimEnd(SubSeq(s, 1, Len(s) - 1)) ELSE s

Trim(s) == TrimEnd(SkipSpaces(s))

\* s.split(sep): every piece between separators, empty pieces included.
RECURSIVE SplitAt(_, _, _)
SplitAt(s, sep, cur) ==
    IF s = <<>> THEN <<cur>>
    ELSE IF Head(s) = sep THEN <<cur>> \o SplitAt(Tail(s), sep, <<>>)
    ELSE SplitAt(Tail(s), sep, Append(cur, Head(s)))

AllDigits(p) == \A k \in DOMAIN p : p[k] \in Digits

\* p.padStart(2, '0') on a piece of one or two characters.
PadStart2(p) == IF Len(p) < 2 THEN <<"0">> \o p ELSE p

\* The match of /^(\d{1,2})SEP(\d{1,2})SEP(\d{4})$/: the three groups, or <<>>.
DayMonthYear(trimmed, sep) ==
    LET parts == SplitAt(trimmed, sep, <<>>) IN
    IF /\ Len(parts) = 3
       /\ \A k \in 1..3 : AllDigits(parts[k])
       /\ Len(parts[1]) \in {1, 2} /\ Len(parts[2]) \in {1, 2} /\ Len(parts[3]) = 4
    THEN parts ELSE <<>>

\* /^\d{4}-\d{2}-\d{2}$/.test(trimmed)
IsoTest(trimmed) ==
    LET parts == SplitAt(trimmed, "-", <<>>) IN
    /\ Len(parts) = 3
    /\ \A k \in 1..3 : AllDigits(parts[k])
    /\ Len(parts[1]) = 4 /\ Len(parts[2]) = 2 /\ Len(parts[3]) = 2

DateOf(value) == [isNull |-> FALSE, value |-> value]
NullDate == [isNull |-> TRUE, value |-> <<>>]

\* The template literal of the two European branches without padStart.
EuropeanToIso_NoPad(m) == m[3] \o <<"-">> \o m[2] \o <<"-">> \o m[1]

\* `${year}-${month.padStart(2, '0')}-${day.padStart(2, '0')}`
EuropeanToIso(m) == m[3] \o <<"-">> \o PadStart2(m[2]) \o <<"-">> \o PadStart2(m[1])

\* parseDate(dateStr): the ISO string, or null.
parseDate(dateStr) ==
    IF dateStr = <<>> THEN NullDate
    ELSE IF DayMonthYear(Trim(dateStr), ".") # <<>>
         THEN DateOf(EuropeanToIso(DayMonthYear(Trim(dateStr), ".")))
    ELSE IF DayMonthYear(Trim(dateStr), "/") # <<>>
         THEN DateOf(EuropeanToIso(DayMonthYear(Trim(dateStr), "/")))
    ELSE IF IsoTest(Trim(dateStr)) THEN DateOf(Trim(dateStr))
    ELSE NullDate

\* The input texts: three groups of digits (or a letter) joined by two
\* separators, with or without a space before and after; and the empty text.
DateGroups == { <<"3">>, <<"1", "4">>, <<"0", "3">>, <<"2", "0", "2", "4">>,
                <<"1", "2", "3">>, <<"a">>, <<>> }
DateSeparators == {".", "/", "-"}
DatePads == {<<>>, <<" ">>}

DateTexts ==
    {<<>>} \cup
    { p[1] \o g[1] \o <<s[1]>> \o g[2] \o <<s[2]>> \o g[3] \o p[2] :
        p \in DatePads \X DatePads, s \in DateSeparators \X DateSeparators,
        g \in DateGroups \X DateGroups \X DateGroups }

InitDates ==
    /\ NoIndexState
    /\ \E text \in DateTexts : ret = [op |-> "text", text |-> text]

ParseDate ==
    /\ ret.op = "text"
    /\ ReadOnly([op |-> "parseDate", text |-> ret.text, value |-> parseDate(ret.text)])

NextDates == ParseDate

SpecDates == InitDates /\ [][NextDates]_vars

\* s has the shape YYYY-MM-DD: ten characters, hyphens fifth and eighth, digits
\* elsewhere.
IsIsoShape(s) ==
    /\ Len(s) = 10
    /\ \A k \in 1..10 : IF k \in {5, 8} THEN s[k] = "-" ELSE s[k] \in Digits

\* s has the shape D.M.YYYY with one- or two-digit day and month and sep between.
IsEuropeanShape(s, sep) ==
    \E i \in {1, 2}, j \in {1, 2} :
        /\ Len(s) = i + j + 6
        /\ \A k \in 1..Len(s) :
              IF k \in {i + 1, i + j + 2} THEN s[k] = sep ELSE s[k] \in Digits

\* The text without the white space around it, found by position.
Inner(s) ==
    IF \A k \in DOMAIN s : s[k] = " " THEN <<>>
    ELSE SubSeq(s, SetMin({k \in DOMAIN s : s[k] # " "}),
                SetMax({k \in DOMAIN s : s[k] # " "}))

\* C22: every non-null result of parseDate has the shape YYYY-MM-DD with day and
\* month zero-padded; parseDate of a string of that shape is the string, so
\* parseDate returns its own non-null results unchanged; and an input matching
\* none of the three formats gives null.
C22_ParseDateYieldsIsoOrNull ==
    ret.op = "parseDate" =>
        /\ ~ret.value.isNull =>
              /\ IsIsoShape(ret.value.value)
              /\ parseDate(ret.value.value) = ret.value
        /\ IsIsoShape(ret.text) => ret.value = DateOf(ret.text)
        /\ ret.value.isNull <=>
              ~(\/ IsIsoShape(Inner(ret.text))
                \/ IsEuropeanShape(Inner(ret.text), ".")
                \/ IsEuropeanShape(Inner(ret.text), "/"))

\* C22 witness: a date with a one-digit day, written with dots and surrounded by
\* spaces, was parsed.
C22_Witness ==
    /\ ret.op = "parseDate"
    /\ ret.text = <<" ", "3", ".", "1", "4", ".", "2", "0", "2", "4", " ">>
    /\ ret.value = DateOf(<<"2", "0", "2", "4", "-", "1", "4", "-", "0", "3">>)


(***************************************************************************)
(* bm25.ts on its own: computeIDF and computeTermScore applied to small    *)
(* counts, next to the service whose searches use them                     *)
(***************************************************************************)

\* Largest corpus size, term frequency and field length offered to the functions;
\* average lengths are the fractions num/den with num up to MaxFieldLen.
MaxCorpus == 6
MaxTermFreq == 3
MaxFieldLen == 4
AvgDocLengths == {Frac(num, den) : num \in 0..MaxFieldLen, den \in {1, 2, 3}}

\* computeIDF(docFreq, totalDocs), called before any document is added.
ComputeIDF ==
    /\ ret.op = "none"
    /\ \E totalDocs \in 0..MaxCorpus : \E docFreq \in 0..totalDocs :
          ReadOnly([ op |-> "computeIDF", docFreq |-> docFreq, totalDocs |-> totalDocs,
                     value |-> computeIDF(docFreq, totalDocs) ])

\* computeTermScore(tf, docLength, avgDocLength, idf) with the default k1 and b
\* and an idf that computeIDF returns.
ComputeTermScore ==
    /\ ret.op = "none"
    /\ \E tf \in 0..MaxTermFreq, docLength \in 0..MaxFieldLen,
          avgDocLength \in AvgDocLengths, totalDocs \in 1..MaxCorpus :
          \E docFreq \in 1..totalDocs :
             ReadOnly([ op |-> "computeTermScore", tf |-> tf, docLength |-> docLength,
                        avgDocLength |-> avgDocLength,
                        idf |-> computeIDF(docFreq, totalDocs),
                        value |-> computeTermScore(tf, docLength, avgDocLength,
                                                   computeIDF(docFreq, totalDocs),
                                                   DEFAULT_SEARCH_CONFIG.k1,
                                                   DEFAULT_SEARCH_CONFIG.b) ])

NextScores == ComputeIDF \/ ComputeTermScore \/ NextMarked

SpecScores == Init /\ [][NextScores]_vars

\* C23: computeIDF(n, N) >= 0 for 0 <= n <= N, and 0 when n = 0 or N = 0;
\* computeTermScore is 0 when avgDocLength = 0 or tf = 0 and >= 0 otherwise, for
\* the default k1 and b; so every result of search under the default
\* configuration has score >= 0.
C23_ScoresAreNonNegative ==
    /\ ret.op = "computeIDF" =>
          /\ ret.value >= 0
          /\ (ret.docFreq = 0 \/ ret.totalDocs = 0) => ret.value = 0
    /\ ret.op = "computeTermScore" =>
          /\ ret.value >= 0
          /\ (ret.avgDocLength.num = 0 \/ ret.tf = 0) => ret.value = 0
    /\ ret.op = "search" => \A k \in DOMAIN ret.value : ret.value[k].score >= 0

\* C23 witness: a term held by every document of a non-empty corpus got a
\* positive IDF.
C23_Witness ==
    /\ ret.op = "computeIDF"
    /\ ret.docFreq = ret.totalDocs /\ ret.totalDocs = MaxCorpus
    /\ ret.value > 0

\* C23 witness of a search: a document held by the whole corpus' term scored
\* above zero.
C23_SearchWitness ==
    /\ ret.op = "search"
    /\ \E k \in DOMAIN ret.value : ret.value[k].score > 0


(***************************************************************************)
(* The IDF cache over time (checked under SpecShared)                      *)
(***************************************************************************)

\* C24: an IDF value stored in the cache under a (field, term) key is never
\* overwritten with a different value, whatever calls follow (search runs to
\* completion without yielding, so calls interleave only as wholes).
C24_CachedIdfIsNeverRewritten ==
    [][\A f \in Fields : \A t \in DOMAIN idfCache[f] :
           t \in DOMAIN idfCache'[f] /\ idfCache'[f][t] = idfCache[f][t]]_vars

\* C24 witness: a search used a cached value that differs from the value
\* computeIDF gives on the index it searched, and the cache still holds it.
C24_Witness ==
    /\ ret.op = "search"
    /\ \E k \in DOMAIN ret.uses :
          /\ ~ret.uses[k].computed
          /\ ret.uses[k].idf
                 # computeIDF(Len(PostingsOf(ret.index, ret.uses[k].field, ret.uses[k].term)),
                              fieldIndex[ret.index][ret.uses[k].field].totalDocs)
          /\ idfCache[ret.uses[k].field][ret.uses[k].term] = ret.uses[k].idf


(***************************************************************************)
(* Multi-word queries (checked under SpecService)                          *)
(***************************************************************************)

\* What search returns for the single query token t.
TokenResults(t, index, cfg, cache) ==
    SortedResults(index, ScoreTerms(<<t>>, index, cfg, cache)).results

\* The matched terms of document d among results, as a set.
TermsIn(results, d) ==
    UNION {Range(results[k].matchedTerms) : k \in {n \in DOMAIN results : results[n].docId = d}}

DocsIn(results) == {results[k].docId : k \in DOMAIN results}

\* results is the additive OR of perToken, the results of each query token.
IsAdditiveOr(results, perToken) ==
    /\ DocsIn(results) = UNION {DocsIn(perToken[k]) : k \in DOMAIN perToken}
    /\ \A d \in DocsIn(results) :
          /\ ScoreIn(results, d)
                 = SumOver([k \in DOMAIN perToken |-> ScoreIn(perToken[k], d)],
                           DOMAIN perToken)
          /\ TermsIn(results, d) = UNION {TermsIn(perToken[k], d) : k \in DOMAIN perToken}

C25_TwiceWitness ==
    /\ ret.op = "search" /\ ret.query = QueryBergBerg
    /\ \E k \in DOMAIN ret.value :
          /\ ret.value[k].score > 0
          /\ ret.value[k].score
                 = 2 * ScoreIn(TokenResults(<<"b", "e", "r", "g">>, IndexOf(ret.index),
                                            MergeConfig(ret.config), idfCache),
                               ret.value[k].docId)


(***************************************************************************)
(* useSearch (hooks/useSearch.ts)                                          *)
(*                                                                         *)
(* hook.requests lists the fetchData calls in the order the effects issued *)
(* them; the last one belongs to the effect of the current paramsString    *)
(* and fetchTrigger.  A request is at "fetch" (awaiting fetch), at "json"  *)
(* (awaiting response.json()) or "done"; aborted is its controller's       *)
(* signal.aborted, outcome how it ended.  data and error name the request whose value they hold. *)
(* A promise's continuation runs in the microtask that follows its         *)
(* settling, so no cleanup comes between a settling and the code after the *)
(* await; once a signal is aborted a pending fetch or json() rejects with  *)
(* an AbortError.                                                          *)
(***************************************************************************)

\* Effects one component runs (mount, parameter changes and refetches).
MaxEffects == 3
SearchParams == {"q=a", "q=b"}

Latest(h) == Len(h.requests)

\* The cleanup of the previous effect: controller.abort().
Cleanup(requests) ==
    IF requests = <<>> THEN requests
    ELSE [requests EXCEPT ![Len(requests)].aborted = TRUE]

\* catch storing whatever was thrown.
CatchSetsError_Always(name) == TRUE

\* catch: only an Error whose name is not 'AbortError' is stored.
CatchSetsError(name) == name # "AbortError"

\* finally clearing the loading flag whatever the signal says.
FinallyClearsLoading_Always(aborted) == TRUE

\* finally: the loading flag is cleared unless the signal is aborted.
FinallyClearsLoading(aborted) == ~aborted

\* The hook's steps change nothing of the search service.
HookStep(h) ==
    /\ hook' = h
    /\ UNCHANGED <<fieldIndex, termsSorted, documents, photographers, restrictions,
                   idfCache, queryLogs, lifecycle, ret>>

\* The effect body: the previous cleanup, a new controller, then fetchData up
\* to its first await.
RunEffect(h, params) ==
    [h EXCEPT !.mounted = "mounted", !.params = params,
              !.isLoading = TRUE, !.error = Null,
              !.requests = Append(Cleanup(h.requests),
                                  [ params |-> params, pc |-> "fetch",
                                    aborted |-> FALSE, outcome |-> "" ])]

Mount(params) ==
    /\ hook.mounted = "rendering"
    /\ HookStep(RunEffect(hook, params))

\* A render with another paramsString.
ParamsChange(params) ==
    /\ hook.mounted = "mounted"
    /\ params # hook.params
    /\ Latest(hook) < MaxEffects
    /\ HookStep(RunEffect(hook, params))

\* refetch(): fetchTrigger + 1, the effect runs again with the same parameters.
Refetch ==
    /\ hook.mounted = "mounted"
    /\ Latest(hook) < MaxEffects
    /\ HookStep(RunEffect(hook, hook.params))

Unmount ==
    /\ hook.mounted = "mounted"
    /\ HookStep([hook EXCEPT !.mounted = "unmounted",
                             !.requests = Cleanup(hook.requests)])

\* How the promise a request awaits can settle.
Outcomes(request) ==
    IF request.pc = "done" THEN {}
    ELSE IF request.aborted THEN {"AbortError"}
    ELSE IF request.pc = "fetch" THEN {"ok", "not ok", "TypeError"}
    ELSE {"result", "SyntaxError"}

\* fetchData from the settling of the awaited promise to its next await or
\* its end.
fetchData(h, id, outcome) ==
    IF outcome = "ok"
    THEN [h EXCEPT !.requests[id].pc = "json"]
    ELSE [h EXCEPT
            !.requests[id].pc = "done",
            !.requests[id].outcome = outcome,
            !.data = IF outcome = "result" THEN [req |-> id] ELSE @,
            !.error = IF outcome # "result"
                         /\ CatchSetsError(IF outcome = "not ok" THEN "Error" ELSE outcome)
                      THEN [req |-> id] ELSE @,
            !.isLoading = IF FinallyClearsLoading(h.requests[id].aborted)
                          THEN FALSE ELSE @]

Settle(id, outcome) ==
    /\ id \in 1..Latest(hook)
    /\ outcome \in Outcomes(hook.requests[id])
    /\ HookStep(fetchData(hook, id, outcome))

SettleSome(id) == \E outcome \in {"ok", "not ok", "TypeError", "result", "SyntaxError",
                                  "AbortError"} : Settle(id, outcome)

NextHook ==
    \/ \E params \in SearchParams : Mount(params)
    \/ \E params \in SearchParams : ParamsChange(params)
    \/ Refetch
    \/ Unmount
    \/ \E id \in 1..MaxEffects : SettleSome(id)

SpecHook == Init /\ [][NextHook]_vars

\* The network answers every request, and a rejected promise is delivered.
SpecHookFair == SpecHook /\ \A id \in 1..MaxEffects : WF_vars(SettleSome(id))

\* C26: every request but the latest is aborted, and whenever data or error
\* changes, the new value comes from the latest request: either that request
\* stored its own response or failure, or it was just issued and reset error to
\* null.  A superseded request never writes data or error.
OnlyLatestWrites ==
    /\ hook'.data # hook.data => hook'.data.req = Latest(hook')
    /\ hook'.error # hook.error =>
          \/ hook'.error = Null /\ Latest(hook') = Latest(hook) + 1
          \/ hook'.error # Null /\ hook'.error.req = Latest(hook')
C26_SupersededRequestNeverWrites ==
    /\ [](\A id \in 1..(Latest(hook) - 1) : hook.requests[id].aborted)
    /\ [][OnlyLatestWrites]_vars

\* A request for other parameters was aborted in flight and ended with its
\* AbortError; data holds the response of the latest request.
C26_Witness ==
    /\ hook.data = [req |-> Latest(hook)]
    /\ hook.error = Null
    /\ \E id \in 1..(Latest(hook) - 1) :
          /\ hook.requests[id].outcome = "AbortError"
          /\ hook.requests[id].params # hook.params

\* The request of the current effect is awaited by a mounted component.
LatestInFlight ==
    /\ hook.mounted = "mounted"
    /\ hook.requests[Latest(hook)].pc # "done"
LatestSettled ==
    /\ hook.mounted = "mounted"
    /\ hook.requests[Latest(hook)].pc = "done"

\* C27: isLoading is true as long as the latest request is in flight (no aborted
\* earlier request clears it), it is false whenever the latest request has
\* settled and nothing was changed since, and every latest request leads to
\* isLoading = false unless the parameters change, refetch is called or the
\* component unmounts first.
C27_LoadingFollowsLatestRequest ==
    /\ [](LatestInFlight => hook.isLoading)
    /\ [](LatestSettled => ~hook.isLoading)
    /\ \A id \in 1..MaxEffects :
          (hook.mounted = "mounted" /\ Latest(hook) = id)
              ~> (hook.mounted = "unmounted" \/ Latest(hook) # id \/ ~hook.isLoading)

\* An earlier request ended with its AbortError after the latest request had
\* already settled and cleared isLoading.
C27_Witness ==
    /\ LatestSettled
    /\ ~hook.isLoading
    /\ \E id \in 1..(Latest(hook) - 1) : hook.requests[id].outcome = "AbortError"


(***************************************************************************)
(* Analytics (lib/api/highlight.ts): logQuery and getAnalytics             *)
(*                                                                         *)
(* ret.calls is the history of every entry passed to logQuery so far.  As  *)
(* in GET, an entry is its query and resultCount; the timing fields, and   *)
(* with them avgResponseTimeMs, are left out, and so is topSearchTerms.    *)
(***************************************************************************)

\* queryLogs.reduce((sum, log) => sum + log.resultCount, 0) over logs[lo..hi].
RECURSIVE SumEach(_, _, _)
SumEach(logs, lo, hi) ==
    IF lo > hi THEN 0 ELSE SumEach(logs, lo, hi - 1) + logs[hi].resultCount

\* The same a block at a time: sum[<<lo, hi>>] is the sum over logs[lo..hi].
SumResults(logs) ==
    LET sum[a \in Nat \X Nat] ==
            IF a[2] - a[1] < 16 THEN SumEach(logs, a[1], a[2])
            ELSE sum[<<a[1], (a[1] + a[2]) \div 2>>]
                 + sum[<<(a[1] + a[2]) \div 2 + 1, a[2]>>]
    IN sum[<<1, Len(logs)>>]

\* Math.round of the quotient of two naturals.
RoundDiv(a, b) == (2 * a + b) \div (2 * b)

getAnalytics(logs) ==
    IF Len(logs) = 0
    THEN [totalSearches |-> 0, avgResultsPerQuery |-> 0]
    ELSE [ totalSearches |-> Len(logs),
           avgResultsPerQuery |-> RoundDiv(SumResults(logs), Len(logs)) ]

\* Single calls whose entry is chosen freely, and the length of a burst of
\* calls that takes the log to the brink of its cap.
MaxLogCalls == 3
BurstLen == MAX_LOGS - 1
LogEntries == [query : {QueryBer, QueryBerlin}, resultCount : {3}]
BurstEntry(n) ==
    [query |-> IF n % 2 = 0 THEN QueryBer ELSE QueryBerlin, resultCount |-> n % 3]

Calls == IF "calls" \in DOMAIN ret THEN ret.calls ELSE <<>>

LogStep(logs, r) ==
    /\ queryLogs' = logs
    /\ ret' = r
    /\ UNCHANGED <<fieldIndex, termsSorted, documents, photographers, restrictions,
                   idfCache, lifecycle, hook>>

\* The calls made one at a time so far.
SingleCalls == IF Len(Calls) >= BurstLen THEN Len(Calls) - BurstLen ELSE Len(Calls)

LogQuery(entry) ==
    /\ SingleCalls < MaxLogCalls
    /\ LogStep(logQuery(queryLogs, entry),
               [op |-> "logQuery", calls |-> Append(Calls, entry)])

\* logQuery called for each of entries[lo..hi] in turn.
RECURSIVE LogEach(_, _, _, _)
LogEach(logs, entries, lo, hi) ==
    IF lo > hi THEN logs
    ELSE logQuery(LogEach(logs, entries, lo, hi - 1), entries[hi])

\* The same a block at a time: after[<<l, lo, hi>>] is the log l after the calls
\* for entries[lo..hi].
LogAll(logs, entries) ==
    LET after[a \in Seq([query : Seq(Chars), resultCount : Nat]) \X Nat \X Nat] ==
            IF a[3] - a[2] < 16 THEN LogEach(a[1], entries, a[2], a[3])
            ELSE after[<<after[<<a[1], a[2], (a[2] + a[3]) \div 2>>],
                         (a[2] + a[3]) \div 2 + 1, a[3]>>]
    IN after[<<logs, 1, Len(entries)>>]

\* BurstLen calls of logQuery in a row.
LogQueryBurst ==
    /\ Len(Calls) <= MaxLogCalls
    /\ LogStep(LogAll(queryLogs, [n \in 1..BurstLen |-> BurstEntry(n)]),
               [ op |-> "logQuery",
                 calls |-> Calls \o [n \in 1..BurstLen |-> BurstEntry(n)] ])

GetAnalytics ==
    LogStep(queryLogs, [ op |-> "getAnalytics", calls |-> Calls,
                         value |-> getAnalytics(queryLogs) ])

NextLog ==
    \/ \E entry \in LogEntries : LogQuery(entry)
    \/ LogQueryBurst
    \/ GetAnalytics

SpecLog == Init /\ [][NextLog]_vars

\* C28: the log never holds more than MAX_LOGS entries; it holds the most recent
\* min(n, MAX_LOGS) entries of the n passed to logQuery, in call order; and
\* getAnalytics().totalSearches is the number of entries held.
C28_LogKeepsMostRecent ==
    /\ Len(queryLogs) <= MAX_LOGS
    /\ Len(queryLogs) = Min(Len(Calls), MAX_LOGS)
    /\ queryLogs = SubSeq(Calls, Len(Calls) - Len(queryLogs) + 1, Len(Calls))
    /\ ret.op = "getAnalytics" => ret.value.totalSearches = Len(queryLogs)

\* More than MAX_LOGS entries were logged, the oldest were evicted, and
\* getAnalytics was called on the full log.
C28_Witness ==
    /\ Len(Calls) > MAX_LOGS + 1
    /\ Len(queryLogs) = MAX_LOGS
    /\ queryLogs[1] # Calls[1]
    /\ queryLogs[MAX_LOGS] = Calls[Len(Calls)]
    /\ ret.op = "getAnalytics"
    /\ ret.value.totalSearches = MAX_LOGS


(***************************************************************************)
(* Pagination of GET /api/search                                           *)
(***************************************************************************)

\* A credit no record carries: the filter excludes everything.
CreditNobody == <<"z">>

\* Requests that differ in their paging parameters: missing, zero, negative,
\* not a number, a number followed by other text, beyond the last page, above
\* the largest page size.  The unusual values of one parameter come with a
\* plain value of the other.
PageValues == {<<>>, <<"0">>, <<"2">>, <<"-", "1">>, <<"a", "b">>, <<"2", "x">>}
PageSizeValues == {<<>>, <<"0">>, <<"1">>, <<"2">>, <<"5", "0", "0">>, <<"a", "b">>}
PagingRequests ==
    LET all == [ q : {QueryEmpty, QueryBer},
                 sort : {<<>>},
                 credit : {<<>>, CreditImago, CreditNobody},
                 dateFrom : {<<>>},
                 dateTo : {<<>>},
                 restriction : {<<>>},
                 page : PageValues,
                 pageSize : PageSizeValues ]
    IN {r \in all : \/ r.page \in {<<>>, <<"2">>} /\ r.pageSize \in {<<>>, <<"1">>, <<"2">>}
                    \/ r.pageSize = <<"1">>
                    \/ r.page = <<>>}

NextPaging ==
    \/ \E d \in 0..(MaxApiDocs - 1), item \in Items :
          /\ lifecycle[1] = "building"
          /\ d = NextDocId(1)
          /\ AddDocument(1, d, item)
    \/ lifecycle[1] = "building" /\ FinalizeIndex(1)
    \/ \E r \in PagingRequests : Len(queryLogs) < MaxRequests /\ GET(r)

SpecPaging == Init /\ [][NextPaging]_vars

\* The parameter is missing or does not start (after white space and a minus
\* sign) with a digit.
MissingOrNonNumeric(value) ==
    \A k \in DOMAIN value :
        value[k] \in Digits => \E j \in 1..(k - 1) : value[j] \notin {" ", "-"}

\* The positions of the list that fall on the page, counted from 0.
PagePositions(page, pageSize, total) ==
    {k \in 0..(total - 1) : (page - 1) * pageSize <= k /\ k < page * pageSize}

\* C29: page >= 1 and pageSize in 1..100, with 1 and 20 for a missing or
\* non-numeric parameter; total is the length of the filtered list; totalPages is
\* the least n >= 1 with n * pageSize >= total; items are the elements of the
\* filtered and sorted list at positions (page-1)*pageSize up to, not including,
\* page*pageSize, in order; an empty filtered list gives items = [], total = 0
\* and totalPages = 1.
C29_PaginationIsClampedSlice ==
    ret.op = "GET" =>
        /\ ret.page >= 1
        /\ ret.pageSize \in 1..100
        /\ MissingOrNonNumeric(ret.request.page) => ret.page = 1
        /\ MissingOrNonNumeric(ret.request.pageSize) => ret.pageSize = 20
        /\ ret.results = FilterAndSort(ret.request, IndexOf(1), EmptyIdfCache).results
        /\ ret.total = Len(ret.results)
        /\ ret.totalPages >= 1
        /\ ret.totalPages * ret.pageSize >= ret.total
        /\ ret.totalPages > 1 => (ret.totalPages - 1) * ret.pageSize < ret.total
        /\ Len(ret.items) = Cardinality(PagePositions(ret.page, ret.pageSize, ret.total))
        /\ \A j \in DOMAIN ret.items :
              /\ ret.items[j].item = ret.results[(ret.page - 1) * ret.pageSize + j].item
              /\ ret.items[j].score = ret.results[(ret.page - 1) * ret.pageSize + j].score
        /\ ret.results = <<>> =>
              ret.items = <<>> /\ ret.total = 0 /\ ret.totalPages = 1

\* Page 2 of a list of two with pageSize 1: the second element alone.
C29_Witness ==
    /\ ret.op = "GET"
    /\ ret.page = 2 /\ ret.pageSize = 1
    /\ ret.total = 2 /\ ret.totalPages = 2
    /\ Len(ret.items) = 1
    /\ ret.items[1].item = ret.results[2].item
    /\ ret.items[1].item # ret.results[1].item


(***************************************************************************)
(* Term frequencies and document lengths                                   *)
(***************************************************************************)

\* The termFrequency of d's postings in one postings list, summed.
FrequencyIn(postings, d) ==
    SumOver([k \in DOMAIN postings |->
                IF postings[k].docId = d THEN postings[k].termFrequency ELSE 0],
            DOMAIN postings)

\* The same over every term of a field index.
FrequencySum(index, d) ==
    SumOver([t \in DOMAIN index.termPostings |-> FrequencyIn(index.termPostings[t], d)],
            DOMAIN index.termPostings)

TermBadEms == <<"b", "a", "d", "-", "e", "m", "s">>
TermBad == <<"b", "a", "d">>
TermEms == <<"e", "m", "s">>

\* C30: every posting has termFrequency >= 1, and for every field and document
\* the recorded document length is the sum of the term frequencies of the
\* document's postings in that field (a hyphenated word contributes its own
\* posting and one for each part that was emitted).
C30_DocLengthIsSumOfFrequencies ==
    \A f \in Fields :
        /\ \A t \in DOMAIN fieldIndex[1][f].termPostings :
              \A k \in DOMAIN fieldIndex[1][f].termPostings[t] :
                  fieldIndex[1][f].termPostings[t][k].termFrequency >= 1
        /\ \A d \in DOMAIN fieldIndex[1][f].docLengths :
              fieldIndex[1][f].docLengths[d] = FrequencySum(fieldIndex[1][f], d)

\* One document holds "Bad-Ems" (postings for bad-ems, bad and ems) and another
\* holds a term twice; a further field of a document has no token at all.
C30_Witness ==
    LET suchtext == fieldIndex[1]["suchtext"] IN
    /\ {TermBadEms, TermBad, TermEms} \subseteq DOMAIN suchtext.termPostings
    /\ \E d \in DOMAIN suchtext.docLengths :
          /\ FrequencyIn(suchtext.termPostings[TermBadEms], d) = 1
          /\ FrequencyIn(suchtext.termPostings[TermBad], d) = 1
          /\ FrequencyIn(suchtext.termPostings[TermEms], d) = 1
          /\ suchtext.docLengths[d] = 4
    /\ \E t \in DOMAIN suchtext.termPostings :
          \E k \in DOMAIN suchtext.termPostings[t] :
              suchtext.termPostings[t][k].termFrequency = 2
    /\ \E d \in DOMAIN fieldIndex[1]["bildnummer"].docLengths :
          fieldIndex[1]["bildnummer"].docLengths[d] = 0

====
